---- MODULE Spec2Model ----
(***************************************************************************)
(* The simulated desktop of src/src/app/page.tsx: the window list of the   *)
(* Page component (open, focus, minimize, close, move), the stacking       *)
(* counter of useZIndexManager, and the virtual file system with its       *)
(* recycle bin and its persisted copy.                                     *)
(*                                                                         *)
(* React runs every discrete event handler to completion and renders       *)
(* before the next event is dispatched, so one action is one event (or one *)
(* call of an operation of the Page component).  A handler reads the state *)
(* of the render it was created in: several calls of next() made by one    *)
(* handler all read the same counter.                                      *)
(***************************************************************************)
EXTENDS Integers, Sequences, FiniteSets, TLC

VARIABLES
    windows,      \* Page: useState<WinInstance[]>, in list (render and taskbar) order
    counter,      \* useZIndexManager: useState(10)
    viewport,     \* useViewportSize: useState({w: 0, h: 0})
    draws,        \* the values next() returned so far, in call order
    initialized,  \* Page: initializedRef
    dragStart,    \* Window95: dragStart ref plus the render the window listeners close over
    now,          \* the wall clock read by Date.now() and new Date(), in milliseconds
    fileSystem,   \* Page: useState<FSFolder>, the tree the operations mutate
    storage,      \* localStorage slot 'win95-filesystem'
    fsCalls,      \* number of file-system operations called so far
    desk,         \* desktop icons, file browser, text editor and the drag of an item
    jobs,         \* unique-resume/actions.ts: the runtime directory and the running invocations
    game,         \* the typing game: prompt, input and the stored WPM history
    ev            \* the last operation: its name, arguments and return value

vars == <<windows, counter, draws, viewport, initialized, dragStart, now, fileSystem, storage,
          fsCalls, desk, jobs, game, ev>>

winVars == <<windows, counter, draws, viewport, initialized, dragStart>>
fsVars == <<fileSystem, storage, fsCalls>>
extVars == <<desk, jobs, game>>

----------------------------------------------------------------------------
(* Bounds of the model. *)

MaxWindows == 2     \* windows open at once
MaxNext == 4        \* values drawn from the stacking counter
MaxClock == 1       \* last clock reading (the clock starts at 0)
MaxCalls == 3       \* file-system operations called in one session
MaxElapsed == 900   \* milliseconds a session of clicks lasts
MaxJobs == 2        \* invocations of processJobPostingAction in flight at once
MaxLetters == 3     \* letters of the typing game's alphabet
MaxEntries == 3     \* entries in the stored WPM history beyond the initial ones

(* Program constants. *)

InitialCounter == 10
FrameW == 320
Padding == 24
FrameH == 200
TaskbarH == 48

----------------------------------------------------------------------------
(* Records as JavaScript objects. *)

Has(r, k) == k \in DOMAIN r

\* { ...item, ...extra }
Spread(item, extra) ==
    [k \in DOMAIN item \cup DOMAIN extra |-> IF k \in DOMAIN extra THEN extra[k] ELSE item[k]]

Max(a, b) == IF a >= b THEN a ELSE b
Min(a, b) == IF a <= b THEN a ELSE b

NoPayload == <<>>
NoDrag == [active |-> FALSE]

----------------------------------------------------------------------------
(* Window manager: pure parts. *)

WindowTypes == {"file-explorer", "notepad", "recycle-bin", "about", "image-viewer", "pdf-viewer"}

\* payload?.currentFile || fallback
CurrentFileOr(payload, fallback) ==
    IF Has(payload, "currentFile") /\ payload.currentFile # "" THEN payload.currentFile ELSE fallback

TitleOf(type, payload) ==
    CASE type = "file-explorer" -> "File Explorer"
      [] type = "notepad" -> "Notepad"
      [] type = "recycle-bin" -> "Recycle Bin"
      [] type = "image-viewer" -> "Image Viewer - " \o CurrentFileOr(payload, "Image")
      [] type = "pdf-viewer" -> "PDF Viewer - " \o CurrentFileOr(payload, "PDF")
      [] OTHER -> "About"

SizeOf(type) ==
    CASE type = "file-explorer" -> [w |-> 760, h |-> 520]
      [] type = "about" -> [w |-> 720, h |-> 720]
      [] type = "image-viewer" -> [w |-> 800, h |-> 600]
      [] type = "pdf-viewer" -> [w |-> 800, h |-> 600]
      [] OTHER -> [w |-> 520, h |-> 360]

\* `${type}-${Date.now()}-${Math.random().toString(36).slice(2, 7)}`
MakeId(type, t, suffix) == type \o "-" \o ToString(t) \o "-" \o suffix

\* randPosition(offset): rx, ry are the two Math.random() draws, in hundredths.
randPosition(offset, rx, ry) ==
    [x |-> (80 + (rx * 120) \div 100) + offset, y |-> (80 + (ry * 80) \div 100) + offset]

\* useZIndexManager.next as seen by one render: counter + 1
next == counter + 1

\* setWindows((ws) => [...ws, base])
openApp(ws, type, payload, id, z, pos) ==
    Append(ws, [id |-> id, title |-> TitleOf(type, payload), type |-> type,
                minimized |-> FALSE, z |-> z, position |-> pos,
                size |-> SizeOf(type), payload |-> payload])

bringToFront(ws, zTop, id) ==
    [i \in 1..Len(ws) |-> IF ws[i].id = id THEN [ws[i] EXCEPT !.z = zTop] ELSE ws[i]]

\* toggleMinimize that minimizes instead of flipping the flag
toggleMinimize_onlyMinimizes(ws, id) ==
    [i \in 1..Len(ws) |-> IF ws[i].id = id THEN [ws[i] EXCEPT !.minimized = TRUE] ELSE ws[i]]

toggleMinimize(ws, id) ==
    [i \in 1..Len(ws) |-> IF ws[i].id = id THEN [ws[i] EXCEPT !.minimized = ~ws[i].minimized] ELSE ws[i]]

\* closeWindow with the filter inverted
closeWindow_keepsOnlyId(ws, id) == SelectSeq(ws, LAMBDA w : w.id = id)

closeWindow(ws, id) == SelectSeq(ws, LAMBDA w : w.id # id)

\* moveWindow without the lower bound 0 on the maxima
moveWindow_negativeMax(ws, vp, id, pos) ==
    LET maxX == vp.w - FrameW - Padding
        maxY == vp.h - FrameH - TaskbarH
    IN  [i \in 1..Len(ws) |->
            IF ws[i].id = id
            THEN [ws[i] EXCEPT !.position = [x |-> Min(Max(0, pos.x), maxX),
                                             y |-> Min(Max(0, pos.y), maxY)]]
            ELSE ws[i]]

moveWindow(ws, vp, id, pos) ==
    LET maxX == Max(0, vp.w - FrameW - Padding)
        maxY == Max(0, vp.h - FrameH - TaskbarH)
    IN  [i \in 1..Len(ws) |->
            IF ws[i].id = id
            THEN [ws[i] EXCEPT !.position = [x |-> Min(Max(0, pos.x), maxX),
                                             y |-> Min(Max(0, pos.y), maxY)]]
            ELSE ws[i]]

\* Window95: if (minimized) return null
Rendered(w) == ~w.minimized

\* Taskbar: windows.map((w) => <button key={w.id} ...>)
TaskbarButtons(ws) == [i \in 1..Len(ws) |-> ws[i].id]

----------------------------------------------------------------------------
(* Virtual file system: nodes are the objects of the source.  A file is    *)
(* [type, ext, size] with an optional content field; a folder is           *)
(* [type, children], children a function from names to nodes; a recycled   *)
(* node carries originalPath, originalName and deletedAt besides.  A       *)
(* property whose value is undefined is an absent field.                   *)

File(ext, size) == [type |-> "file", ext |-> ext, size |-> size]
Folder(children) == [type |-> "folder", children |-> children]
EmptyFolder == Folder(<<>>)

\* the value of a failed lookup (null, undefined)
Null == [type |-> "null"]

\* obj[k] = v
Put(f, k, v) == [x \in DOMAIN f \cup {k} |-> IF x = k THEN v ELSE f[x]]
\* delete obj[k]
Del(f, k) == [x \in DOMAIN f \ {k} |-> f[x]]
\* obj[k], undefined when there is no such property (the names of the model
\* are none of the member names of Object.prototype)
Get(f, k) == IF k \in DOMAIN f THEN f[k] ELSE Null

Shortcut == File("lnk", 1024)

DEFAULT_FS_ROOT ==
    Folder([d \in {"C:"} |->
        Folder([f \in {"Desktop", "Documents", "Pictures"} |->
            CASE f = "Desktop" ->
                    Folder([n \in {"My Computer.lnk", "Documents.lnk", "Notepad.lnk",
                                   "Recycle Bin.lnk", "About.lnk"} |-> Shortcut])
              [] f = "Documents" -> Folder([n \in {"CV/Resume.pdf"} |-> File("pdf", 28672)])
              [] OTHER -> Folder([n \in {"Image of Liam.jpg"} |-> File("jpg", 1600000)])])])

RECURSIVE Walk(_, _)
Walk(cur, path) ==
    IF path = <<>> THEN cur
    ELSE IF cur.type # "folder" THEN Null
    ELSE IF Head(path) \notin DOMAIN cur.children THEN Null
    ELSE Walk(cur.children[Head(path)], Tail(path))

\* getNodeByPath without the case of the empty path
getNodeByPath_emptyIsNull(root, path) == IF Len(path) = 0 THEN Null ELSE Walk(root, path)

getNodeByPath(root, path) == IF Len(path) = 0 THEN root ELSE Walk(root, path)

\* The tree after the folder object at path had its children replaced in place.
RECURSIVE SetChildren(_, _, _)
SetChildren(node, path, ch) ==
    IF path = <<>> THEN [node EXCEPT !.children = ch]
    ELSE [node EXCEPT !.children =
            Put(@, Head(path), SetChildren(node.children[Head(path)], Tail(path), ch))]

IsPrefix(p, q) == Len(p) <= Len(q) /\ SubSeq(q, 1, Len(p)) = p

\* JSON.stringify(fs): the text of the tree; an undefined property is left out.
JSONstringify(fs) == <<"json", fs>>

\* A call's outcome: the tree afterwards, the value returned ("true", "false",
\* or "throw" for an uncaught TypeError) and whether saveFileSystem(root) ran.
Outcome(root, result, saved) == [root |-> root, result |-> result, saved |-> saved]

\* createFile that keeps a child already stored under filename
createFile_keepsExisting(root, path, filename, content) ==
    LET folder == getNodeByPath(root, path) IN
    IF folder.type # "folder" THEN Outcome(root, "false", FALSE)
    ELSE IF filename \in DOMAIN folder.children THEN Outcome(root, "true", TRUE)
    ELSE LET newFile == [type |-> "file", ext |-> "txt", size |-> Len(content), content |-> content]
         IN  Outcome(SetChildren(root, path, Put(folder.children, filename, newFile)), "true", TRUE)

createFile(root, path, filename, content) ==
    LET folder == getNodeByPath(root, path) IN
    IF folder.type # "folder" THEN Outcome(root, "false", FALSE)
    ELSE LET newFile == [type |-> "file", ext |-> "txt", size |-> Len(content), content |-> content]
         IN  Outcome(SetChildren(root, path, Put(folder.children, filename, newFile)), "true", TRUE)

\* updateFile that writes the file whether or not it exists
updateFile_createsMissing(root, path, filename, content) ==
    LET folder == getNodeByPath(root, path) IN
    IF folder.type # "folder" THEN Outcome(root, "false", FALSE)
    ELSE LET file == Get(folder.children, filename)
             written == IF file.type = "file"
                        THEN Spread(file, [size |-> Len(content), content |-> content])
                        ELSE [type |-> "file", ext |-> "txt", size |-> Len(content), content |-> content]
         IN  Outcome(SetChildren(root, path, Put(folder.children, filename, written)), "true", TRUE)

updateFile(root, path, filename, content) ==
    LET folder == getNodeByPath(root, path) IN
    IF folder.type # "folder" THEN Outcome(root, "false", FALSE)
    ELSE LET file == Get(folder.children, filename) IN
         IF file.type # "file" THEN Outcome(root, "false", FALSE)
         ELSE LET written == Spread(file, [size |-> Len(content), content |-> content])
              IN  Outcome(SetChildren(root, path, Put(folder.children, filename, written)), "true", TRUE)

\* new Date().toISOString().replace(/[:.]/g, '-'): one text per millisecond
Timestamp(t) == ToString(t)

\* `${itemName}_${timestamp}`
RecycledName(itemName, t) == itemName \o "_" \o Timestamp(t)

\* moveToRecycleBin that creates the recycle bin before it looks for the item
moveToRecycleBin_binFirst(root, itemPath, itemName, t, deletedAt) ==
    LET root1 == IF "Recycle Bin" \in DOMAIN root.children THEN root
                 ELSE [root EXCEPT !.children = Put(@, "Recycle Bin", EmptyFolder)]
        sourceFolder == getNodeByPath(root1, itemPath)
    IN
    IF sourceFolder.type # "folder" THEN Outcome(root1, "false", FALSE)
    ELSE IF itemName \notin DOMAIN sourceFolder.children THEN Outcome(root1, "false", FALSE)
    ELSE IF root1.children["Recycle Bin"].type # "folder" THEN Outcome(root1, "throw", FALSE)
    ELSE
      LET recycledItem == Spread(sourceFolder.children[itemName],
                                 [originalPath |-> itemPath, originalName |-> itemName,
                                  deletedAt |-> Timestamp(deletedAt)])
          root2 == SetChildren(root1, <<"Recycle Bin">>,
                               Put(root1.children["Recycle Bin"].children,
                                   RecycledName(itemName, t), recycledItem))
          source2 == getNodeByPath(root2, itemPath)
      IN  Outcome(IF source2.type = "folder"
                  THEN SetChildren(root2, itemPath, Del(source2.children, itemName))
                  ELSE root2, "true", TRUE)

\* t is the clock read for the name, deletedAt the clock read for the metadata.
moveToRecycleBin(root, itemPath, itemName, t, deletedAt) ==
    LET sourceFolder == getNodeByPath(root, itemPath) IN
    IF sourceFolder.type # "folder" THEN Outcome(root, "false", FALSE)
    ELSE IF itemName \notin DOMAIN sourceFolder.children THEN Outcome(root, "false", FALSE)
    ELSE
      LET item == sourceFolder.children[itemName]
          root1 == IF "Recycle Bin" \in DOMAIN root.children THEN root
                   ELSE [root EXCEPT !.children = Put(@, "Recycle Bin", EmptyFolder)]
          recycleBin == root1.children["Recycle Bin"]
          recycledName == RecycledName(itemName, t)
          recycledItem == Spread(item, [originalPath |-> itemPath, originalName |-> itemName,
                                        deletedAt |-> Timestamp(deletedAt)])
      IN
      \* recycleBin.children is undefined when a file is stored under the name
      IF recycleBin.type # "folder" THEN Outcome(root1, "throw", FALSE)
      ELSE
        LET root2 == SetChildren(root1, <<"Recycle Bin">>,
                                 Put(recycleBin.children, recycledName, recycledItem))
            \* the new entry replaced the object the source folder was reached through
            detached == IsPrefix(<<"Recycle Bin", recycledName>>, itemPath)
            root3 == IF detached THEN root2
                     ELSE SetChildren(root2, itemPath,
                                      Del(getNodeByPath(root2, itemPath).children, itemName))
        IN  Outcome(root3, "true", TRUE)

\* restoreFromRecycleBin that restores to the root when the original folder is gone
restoreFromRecycleBin_toRoot(root, recycledName) ==
    LET recycleBin == Get(root.children, "Recycle Bin") IN
    IF recycleBin.type # "folder" THEN Outcome(root, "false", FALSE)
    ELSE IF recycledName \notin DOMAIN recycleBin.children THEN Outcome(root, "false", FALSE)
    ELSE
      LET recycledItem == recycleBin.children[recycledName]
          recorded == IF Has(recycledItem, "originalPath") THEN recycledItem.originalPath ELSE <<>>
          originalPath == IF getNodeByPath(root, recorded).type = "folder" THEN recorded ELSE <<>>
          originalName == IF Has(recycledItem, "originalName") THEN recycledItem.originalName
                          ELSE recycledName
          restoredItem == [k \in DOMAIN recycledItem \ {"originalPath", "originalName", "deletedAt"}
                              |-> recycledItem[k]]
          rootA == SetChildren(root, originalPath,
                               Put(getNodeByPath(root, originalPath).children, originalName, restoredItem))
      IN  Outcome(IF Get(rootA.children, "Recycle Bin").type = "folder"
                  THEN SetChildren(rootA, <<"Recycle Bin">>,
                                   Del(rootA.children["Recycle Bin"].children, recycledName))
                  ELSE rootA, "true", TRUE)

restoreFromRecycleBin(root, recycledName) ==
    \* root.children is undefined when the root is no folder object
    IF ~Has(root, "children") THEN Outcome(root, "throw", FALSE) ELSE
    LET recycleBin == Get(root.children, "Recycle Bin") IN
    IF recycleBin.type # "folder" THEN Outcome(root, "false", FALSE)
    ELSE IF recycledName \notin DOMAIN recycleBin.children THEN Outcome(root, "false", FALSE)
    ELSE
      LET recycledItem == recycleBin.children[recycledName]
          originalPath == IF Has(recycledItem, "originalPath") THEN recycledItem.originalPath ELSE <<>>
          originalName == IF Has(recycledItem, "originalName") /\ recycledItem.originalName # ""
                          THEN recycledItem.originalName ELSE recycledName
          destinationFolder == getNodeByPath(root, originalPath)
      IN
      IF destinationFolder.type # "folder" THEN Outcome(root, "false", FALSE)
      ELSE
        LET restoredItem ==
                IF recycledItem.type = "file"
                THEN Spread([type |-> "file", ext |-> recycledItem.ext, size |-> recycledItem.size],
                            IF Has(recycledItem, "content")
                            THEN [content |-> recycledItem.content] ELSE <<>>)
                ELSE [type |-> "folder", children |-> recycledItem.children]
            rootA == SetChildren(root, originalPath,
                                 Put(destinationFolder.children, originalName, restoredItem))
            \* the restored item replaced the recycle bin object itself
            detached == originalPath = <<>> /\ originalName = "Recycle Bin"
            rootB == IF detached THEN rootA
                     ELSE SetChildren(rootA, <<"Recycle Bin">>,
                                      Del(rootA.children["Recycle Bin"].children, recycledName))
        IN  Outcome(rootB, "true", TRUE)

\* emptyRecycleBin that empties only a folder
emptyRecycleBin_onlyFolder(root) ==
    IF Get(root.children, "Recycle Bin").type = "folder"
    THEN Outcome([root EXCEPT !.children = Put(@, "Recycle Bin", EmptyFolder)], "true", TRUE)
    ELSE Outcome(root, "false", FALSE)

emptyRecycleBin(root) ==
    \* root.children is undefined when the root is no folder object
    IF ~Has(root, "children") THEN Outcome(root, "throw", FALSE)
    ELSE IF "Recycle Bin" \in DOMAIN root.children
    THEN Outcome([root EXCEPT !.children = Put(@, "Recycle Bin", EmptyFolder)], "true", TRUE)
    ELSE Outcome(root, "false", FALSE)

\* localStorage.getItem: null when the slot was never written
NoItem == <<"null">>

\* saveFileSystem(fs): the slot after the call; an error raised by
\* localStorage.setItem is caught and leaves the slot as it was
saveFileSystem(slot, fs, setItemThrows) == IF setItemThrows THEN slot ELSE JSONstringify(fs)

\* loadFileSystem(): the parsed slot, DEFAULT_FS_ROOT when the slot is empty or
\* JSON.parse throws
loadFileSystem(slot) ==
    IF slot = NoItem THEN DEFAULT_FS_ROOT
    ELSE IF slot[1] = "json" THEN slot[2]
    ELSE DEFAULT_FS_ROOT

----------------------------------------------------------------------------
(* Inputs of the window manager. *)

\* (type, payload) of the openApp calls: FileExplorerApp.openItem on a text file
OpenCalls ==
    { <<"notepad", [text |-> "hello", currentFile |-> "a.txt"]>> }

\* Math.random().toString(36).slice(2, 7)
Suffixes == {"k3x9q", "0a7fz"}

\* the two Math.random() draws of randPosition, in hundredths
RandomDraws == { <<0, 0>>, <<99, 99>> }

\* window.innerWidth, window.innerHeight
Viewports == { [w |-> 300, h |-> 200], [w |-> 800, h |-> 600] }

\* positions proposed to moveWindow
Positions == { [x |-> 5000, y |-> -50], [x |-> -50, y |-> 5000], [x |-> 100, y |-> 100] }

\* where in the title bar a drag grabs the window, relative to its corner
Grabs == { [x |-> 20, y |-> 10] }

\* pointer coordinates (clientX, clientY) of the mousemove events of a drag
Pointers == { [x |-> 600, y |-> 190], [x |-> 5000, y |-> 0] }

GhostId == "notepad-0-none"

IdsOf(ws) == {ws[i].id : i \in 1..Len(ws)}

CallIds(ws) == IdsOf(ws) \cup {GhostId}

----------------------------------------------------------------------------
(* Window manager: events. *)

\* Page: the mount effects (viewport measured, file system loaded, About opened)
Mount(viewports, suffixes) ==
    /\ ~initialized
    /\ \E vp \in viewports, r \in suffixes :
        LET aboutId == MakeId("about", now, r) IN
        /\ viewport' = vp
        /\ fileSystem' = loadFileSystem(storage)
        /\ windows' = << [id |-> aboutId, title |-> "About Windows", type |-> "about",
                          minimized |-> FALSE, z |-> next,
                          position |-> [x |-> 580, y |-> 180],
                          size |-> [w |-> 720, h |-> 720], payload |-> NoPayload] >>
        /\ counter' = next
        /\ draws' = Append(draws, next)
        /\ initialized' = TRUE
        /\ ev' = [op |-> "openApp", id |-> aboutId]
    /\ UNCHANGED <<dragStart, now, storage, fsCalls, extVars>>

\* useViewportSize: onResize
Resize ==
    /\ initialized
    /\ \E vp \in Viewports \ {viewport} :
        /\ viewport' = vp
        /\ ev' = [op |-> "resize"]
    /\ UNCHANGED <<draws, windows, counter, initialized, dragStart, now, fsVars, extVars>>

\* the clock advances
Tick ==
    /\ now < MaxClock
    /\ now' = now + 1
    /\ ev' = [op |-> "tick"]
    /\ UNCHANGED <<winVars, fsVars, extVars>>

\* openApp(type, payload), called with one of calls; rnd bounds Math.random()
OpenApp(calls, rnd) ==
    /\ initialized
    /\ Len(windows) < MaxWindows
    /\ counter < InitialCounter + MaxNext
    /\ \E call \in calls, r \in Suffixes, d \in rnd :
        LET id == MakeId(call[1], now, r) IN
        /\ windows' = openApp(windows, call[1], call[2], id, next,
                              randPosition(Len(windows) * 12, d[1], d[2]))
        /\ counter' = next
        /\ draws' = Append(draws, next)
        /\ ev' = [op |-> "openApp", id |-> id]
    /\ UNCHANGED <<viewport, initialized, dragStart, now, fsVars, extVars>>

BringToFront ==
    /\ initialized
    /\ counter < InitialCounter + MaxNext
    /\ \E id \in CallIds(windows) :
        /\ windows' = bringToFront(windows, next, id)
        /\ counter' = next
        /\ draws' = Append(draws, next)
        /\ ev' = [op |-> "bringToFront", id |-> id]
    /\ UNCHANGED <<viewport, initialized, dragStart, now, fsVars, extVars>>

ToggleMinimize ==
    /\ initialized
    /\ \E id \in CallIds(windows) :
        /\ windows' = toggleMinimize(windows, id)
        /\ ev' = [op |-> "toggleMinimize", id |-> id]
    /\ UNCHANGED <<draws, counter, viewport, initialized, dragStart, now, fsVars, extVars>>

CloseWindow ==
    /\ initialized
    /\ \E id \in CallIds(windows) :
        /\ windows' = closeWindow(windows, id)
        /\ ev' = [op |-> "closeWindow", id |-> id]
    /\ UNCHANGED <<draws, counter, viewport, initialized, dragStart, now, fsVars, extVars>>

MoveWindow ==
    /\ initialized
    /\ \E id \in CallIds(windows), pos \in Positions :
        /\ windows' = moveWindow(windows, viewport, id, pos)
        /\ ev' = [op |-> "moveWindow", id |-> id, pos |-> pos, vp |-> viewport]
    /\ UNCHANGED <<draws, counter, viewport, initialized, dragStart, now, fsVars, extVars>>

\* Taskbar button: onToggleMinimize(w.id); onFocus(w.id)
TaskbarClick ==
    /\ counter < InitialCounter + MaxNext
    /\ \E i \in 1..Len(windows) :
        LET id == windows[i].id IN
        /\ windows' = bringToFront(toggleMinimize(windows, id), next, id)
        /\ counter' = next
        /\ draws' = Append(draws, next)
        /\ ev' = [op |-> "taskbarClick", id |-> id]
    /\ UNCHANGED <<viewport, initialized, dragStart, now, fsVars, extVars>>

\* Window95.onTitleMouseDown, then the same mousedown bubbling to the dialog's
\* onMouseDown: bringToFront runs twice in one render.
TitleMouseDown ==
    /\ ~dragStart.active
    /\ counter < InitialCounter + MaxNext
    /\ \E i \in 1..Len(windows), g \in Grabs :
        LET w == windows[i]
            c == [x |-> w.position.x + g.x, y |-> w.position.y + g.y]
        IN
        /\ Rendered(w)
        /\ windows' = bringToFront(bringToFront(windows, next, w.id), next, w.id)
        /\ counter' = next
        /\ draws' = Append(Append(draws, next), next)
        /\ dragStart' = [active |-> TRUE, id |-> w.id,
                         offset |-> [x |-> c.x - w.position.x, y |-> c.y - w.position.y],
                         vp |-> viewport]
        /\ ev' = [op |-> "bringToFront", id |-> w.id]
    /\ UNCHANGED <<viewport, initialized, now, fsVars, extVars>>

\* Window95.onMouseMove, the window listener of the render of the mousedown
WindowMouseMove ==
    /\ dragStart.active
    /\ \E c \in Pointers :
        LET nx == c.x - dragStart.offset.x
            ny == c.y - dragStart.offset.y
            pos == [x |-> Max(0, nx), y |-> Max(0, ny)]
        IN
        /\ windows' = moveWindow(windows, dragStart.vp, dragStart.id, pos)
        /\ ev' = [op |-> "moveWindow", id |-> dragStart.id, pos |-> pos, vp |-> dragStart.vp]
    /\ UNCHANGED <<draws, counter, viewport, initialized, dragStart, now, fsVars, extVars>>

\* Window95.onMouseUp
WindowMouseUp ==
    /\ dragStart.active
    /\ dragStart' = NoDrag
    /\ ev' = [op |-> "mouseUp"]
    /\ UNCHANGED <<draws, windows, counter, viewport, initialized, now, fsVars, extVars>>

\* desktopIcons: the call of openApp behind each icon, by key
DesktopIcons ==
    [ k \in {"my-computer", "documents", "notepad", "recycle-bin", "about"} |->
        CASE k = "my-computer" -> <<"file-explorer", [initialPath |-> <<>>]>>
          [] k = "documents" -> <<"file-explorer", [initialPath |-> <<"C:", "Documents">>]>>
          [] k = "notepad" -> <<"notepad", NoPayload>>
          [] k = "recycle-bin" -> <<"recycle-bin", NoPayload>>
          [] OTHER -> <<"about", NoPayload>> ]

DoubleClickMs == 300

\* DesktopIcon.handleClick: what a click at time t does when the icon's
\* lastClickRef holds last
handleClick_inclusive(last, t) == IF t - last <= DoubleClickMs THEN "open" ELSE "select"

handleClick(last, t) == IF t - last < DoubleClickMs THEN "open" ELSE "select"

\* no item of the file browser is pressed
NoPress == [pressed |-> FALSE]

\* handleEndDrag: setDragState({isDragging: false, item: null, position: {x: 0, y: 0}})
handleEndDrag == [isDragging |-> FALSE, item |-> Null, position |-> [x |-> 0, y |-> 0]]

\* handleStartDrag(item, position)
handleStartDrag(item, position) == [isDragging |-> TRUE, item |-> item, position |-> position]

\* handleDragMove(position): setDragState(prev => ({...prev, position}))
handleDragMove(prev, position) == [prev EXCEPT !.position = position]

\* the dragItem that the listener of a pressed file-browser entry builds
DragItem(name, isFolder, path) ==
    [type |-> "file-explorer-item", name |-> name, path |-> path, isFolder |-> isFolder,
     originalLocation |-> path]

Abs(n) == IF n < 0 THEN -n ELSE n

DragThreshold == 5

\* the test of the mousemove listener of a pressed entry
StartsDrag_atThreshold(start, p) ==
    Abs(p.x - start.x) >= DragThreshold \/ Abs(p.y - start.y) >= DragThreshold

StartsDrag(start, p) ==
    Abs(p.x - start.x) > DragThreshold \/ Abs(p.y - start.y) > DragThreshold

\* the test of the drop overlay: the point lies in rect, edges included
Inside_exclusive(rect, p) ==
    p.x > rect.left /\ p.x < rect.right /\ p.y > rect.top /\ p.y < rect.bottom

Inside(rect, p) ==
    p.x >= rect.left /\ p.x <= rect.right /\ p.y >= rect.top /\ p.y <= rect.bottom

\* rightPaneItems: the entries the file browser shows at path, by name
rightPaneItems(root, path) ==
    LET currentNode == getNodeByPath(root, path) IN
    IF currentNode.type # "folder" THEN {} ELSE DOMAIN currentNode.children

\* The names of the model without their last extension: name.endsWith(ext)
\* holds when name is one of these followed by ext.
Stems ==
    {"My Computer", "Documents", "Notepad", "Recycle Bin", "About", "CV/Resume",
     "Image of Liam", "notes", "Untitled"}

EndsWith(name, ext) == \E stem \in Stems : name = stem \o ext

\* name.replace('.lnk', '') of a name that ends with .lnk
IconName(name) == CHOOSE stem \in Stems : name = stem \o ".lnk"

\* what openItem(name) does: kind "path" sets the path, kind "open" calls
\* onOpenApp, kind "alert" shows a message, kind "none" returns
openItem(root, path, name) ==
    IF Len(path) = 0 THEN [kind |-> "path", path |-> <<name>>]
    ELSE LET node == getNodeByPath(root, path)
             target == IF node.type = "folder" THEN Get(node.children, name) ELSE Null
             open(type, payload) == [kind |-> "open", call |-> <<type, payload>>]
         IN
    IF node.type # "folder" THEN [kind |-> "none"]
    ELSE IF target = Null THEN [kind |-> "none"]
    ELSE IF target.type = "folder" THEN [kind |-> "path", path |-> Append(path, name)]
    ELSE IF EndsWith(name, ".lnk") THEN
        CASE IconName(name) = "My Computer" -> open("file-explorer", [initialPath |-> <<>>])
          [] IconName(name) = "Documents" ->
                open("file-explorer", [initialPath |-> <<"C:", "Documents">>])
          [] IconName(name) = "Notepad" -> open("notepad", NoPayload)
          [] IconName(name) = "Recycle Bin" -> open("recycle-bin", NoPayload)
          [] IconName(name) = "About" -> open("about", NoPayload)
          [] OTHER -> [kind |-> "alert"]
    ELSE IF EndsWith(name, ".txt") THEN
        open("notepad", [text |-> IF Has(target, "content") THEN target.content ELSE "",
                         currentFile |-> name])
    ELSE IF EndsWith(name, ".jpg") \/ EndsWith(name, ".jpeg") \/ EndsWith(name, ".png") THEN
        open("image-viewer", [filePath |-> "/files/Pictures/" \o name, fileType |-> "image",
                              currentFile |-> name])
    ELSE IF EndsWith(name, ".pdf") THEN
        open("pdf-viewer", [filePath |-> IF name = "CV/Resume.pdf" THEN "/files/Documents/CV.pdf"
                                         ELSE "/files/Documents/" \o name,
                            fileType |-> "pdf", currentFile |-> name])
    ELSE [kind |-> "alert"]

DemoText == "Hello from Notepad.\n\nThis is a demo."

\* renderContent, NotepadApp: the state of the editor of a new notepad window
\* (text = payload?.text || the demo text, currentFile = payload?.currentFile || null)
NotepadApp(payload) ==
    [ content |-> IF Has(payload, "text") /\ payload.text # "" THEN payload.text ELSE DemoText,
      currentFile |-> IF Has(payload, "currentFile") /\ payload.currentFile # ""
                      THEN payload.currentFile ELSE "null",
      isModified |-> FALSE ]

\* the children of a window opened by the call: the file browser starts at
\* initialPath, the editor with its text
Rendering(d, call) ==
    CASE call[1] = "file-explorer" -> [d EXCEPT !.path = call[2].initialPath]
      [] call[1] = "notepad" -> [d EXCEPT !.editor = NotepadApp(call[2])]
      [] OTHER -> d

\* FS_ROOT = loadFileSystem() when the module is loaded: the object DEFAULT_FS_ROOT,
\* which is also the tree of the Page (shared), or an object of its own that
\* JSON.parse built
ModuleLoad(slot) ==
    IF slot = NoItem \/ slot[1] # "json"
    THEN [shared |-> TRUE]
    ELSE [shared |-> FALSE, tree |-> loadFileSystem(slot)]

\* Page and its children before the first event
InitialDesk ==
    [ selectedIcon |-> "none",                            \* Page: selectedIcon
      lastClick |-> [k \in DOMAIN DesktopIcons |-> 0],    \* DesktopIcon: lastClickRef
      path |-> <<>>,                                      \* FileExplorerApp: path
      press |-> NoPress,                                  \* listeners of a pressed entry
      dragState |-> handleEndDrag,                        \* Page: dragState
      editor |-> NotepadApp(NoPayload),                   \* NotepadApp: content, currentFile
      FS_ROOT |-> ModuleLoad(NoItem) ]                    \* the module's FS_ROOT

\* no invocation of processJobPostingAction under this number
Idle == [pc |-> "idle"]

\* the server before the first submission: the files of RUNTIME_DIR (for
\* Output_CV.tex and the PDF, the job text they were made from) and the
\* invocations in flight
InitialJobs ==
    [ job_posting |-> "none", Output_CV |-> "none", pdf |-> "none",
      running |-> [i \in 1..MaxJobs |-> Idle] ]

WordSets == {"uk", "uk_hard", "hard"}

\* letterIndex(l) + 1 for the letters of the alphabet
Letters == 1..MaxLetters

\* getInitialWpmHistory(): for every letter one entry without a speed.  An
\* entry is given by its third component, the words per minute, 0 for ''.
getInitialWpmHistory == [l \in Letters |-> <<0>>]

\* the typing game once mounted: the state of Home (a time by whether it is
\* set, the finish time by the words per minute it gives with the start
\* time, 0 for null), the wpmHistory_ items of localStorage (<<>> for none),
\* the fetches of words in flight, and the completions so far
InitialGame ==
    [ input |-> <<>>, promptString |-> <<>>, wordSet |-> "uk", letter |-> 1,
      startTime |-> FALSE, finishTime |-> 0,
      localStorage |-> [ws \in WordSets |-> IF ws = "uk" THEN getInitialWpmHistory ELSE <<>>],
      fetches |-> {"effect"},
      completions |-> [ws \in WordSets |-> [l \in Letters |-> 0]] ]

InitWindows ==
    /\ windows = <<>>
    /\ counter = InitialCounter
    /\ draws = <<>>
    /\ viewport = [w |-> 0, h |-> 0]
    /\ initialized = FALSE
    /\ dragStart = NoDrag
    /\ now = 0
    /\ fileSystem = DEFAULT_FS_ROOT
    /\ storage = NoItem
    /\ fsCalls = 0
    /\ desk = InitialDesk
    /\ jobs = InitialJobs
    /\ game = InitialGame
    /\ ev = [op |-> "init"]

\* Opening, focusing, minimizing and closing windows.
NextWindows ==
    \/ Mount({[w |-> 800, h |-> 600]}, Suffixes)
    \/ Tick
    \/ OpenApp(OpenCalls, {<<50, 50>>})
    \/ BringToFront
    \/ ToggleMinimize
    \/ CloseWindow
    \/ TaskbarClick

SpecWindows == InitWindows /\ [][NextWindows]_vars

\* Moving windows: moveWindow called directly and through a title-bar drag.
NextMove ==
    \/ Mount(Viewports, {"k3x9q"})
    \/ Resize
    \/ OpenApp({<<"notepad", NoPayload>>}, RandomDraws)
    \/ MoveWindow
    \/ TitleMouseDown
    \/ WindowMouseMove
    \/ WindowMouseUp

SpecMove == InitWindows /\ [][NextMove]_vars

----------------------------------------------------------------------------
(* File system: inputs and calls.  Each call passes the Page's tree to the  *)
(* operation, which changes it in place and saves it when it succeeds.      *)

\* folder paths handed to the operations: the root, the desktop, and the
\* recycle bin, which is absent at first and can come to be a folder or a file
FsPaths == { <<>>, <<"C:", "Desktop">>, <<"Recycle Bin">> }

\* a desktop item, the name of the recycle bin, and the drive, which is also
\* a name new to the desktop and to the recycle bin
FsNames == {"About.lnk", "Recycle Bin", "C:"}

Contents == {"", "hello"}

\* the entries RecycleBinApp lists, and a name that is in no bin
RestoreNames(root) ==
    LET recycleBin == IF Has(root, "children") THEN Get(root.children, "Recycle Bin") ELSE Null IN
    (IF recycleBin.type = "folder" THEN DOMAIN recycleBin.children ELSE {}) \cup {"a.txt_9"}

\* the state after a call whose outcome is out
Called(out, setItemThrows) ==
    /\ fileSystem' = out.root
    /\ storage' = IF out.saved THEN saveFileSystem(storage, out.root, setItemThrows) ELSE storage
    /\ fsCalls' = fsCalls + 1

CreateFile(quota) ==
    /\ initialized
    /\ fsCalls < MaxCalls
    /\ \E path \in FsPaths, filename \in FsNames, content \in Contents, full \in quota :
        LET out == createFile(fileSystem, path, filename, content) IN
        /\ Called(out, full)
        /\ ev' = [op |-> "createFile", path |-> path, name |-> filename,
                  content |-> content, result |-> out.result]
    /\ UNCHANGED <<winVars, now, extVars>>

UpdateFile(quota) ==
    /\ initialized
    /\ fsCalls < MaxCalls
    /\ \E path \in FsPaths, filename \in FsNames, content \in Contents, full \in quota :
        LET out == updateFile(fileSystem, path, filename, content) IN
        /\ Called(out, full)
        /\ ev' = [op |-> "updateFile", path |-> path, name |-> filename,
                  content |-> content, result |-> out.result]
    /\ UNCHANGED <<winVars, now, extVars>>

\* the clock is read once for the entry's name and once more for deletedAt
MoveToRecycleBin(quota) ==
    /\ initialized
    /\ fsCalls < MaxCalls
    /\ \E itemPath \in FsPaths, itemName \in FsNames, deletedAt \in now..Min(now + 1, MaxClock),
          full \in quota :
        LET out == moveToRecycleBin(fileSystem, itemPath, itemName, now, deletedAt) IN
        /\ Called(out, full)
        /\ now' = deletedAt
        /\ ev' = [op |-> "moveToRecycleBin", path |-> itemPath, name |-> itemName,
                  recycledName |-> RecycledName(itemName, now), result |-> out.result]
    /\ UNCHANGED <<winVars, extVars>>

RestoreFromRecycleBin(quota) ==
    /\ initialized
    /\ fsCalls < MaxCalls
    /\ \E recycledName \in RestoreNames(fileSystem), full \in quota :
        LET out == restoreFromRecycleBin(fileSystem, recycledName) IN
        /\ Called(out, full)
        /\ ev' = [op |-> "restoreFromRecycleBin", name |-> recycledName, result |-> out.result]
    /\ UNCHANGED <<winVars, now, extVars>>

EmptyRecycleBin(quota) ==
    /\ initialized
    /\ fsCalls < MaxCalls
    /\ \E full \in quota :
        LET out == emptyRecycleBin(fileSystem) IN
        /\ Called(out, full)
        /\ ev' = [op |-> "emptyRecycleBin", result |-> out.result]
    /\ UNCHANGED <<winVars, now, extVars>>

\* Creating, updating, deleting and restoring files, with room in the storage:
\* quota is the set of outcomes of localStorage.setItem, FALSE for a write
\* that succeeds and TRUE for one that raises.
NextFS ==
    \/ Mount({[w |-> 800, h |-> 600]}, {"k3x9q"})
    \/ Tick
    \/ CreateFile({FALSE})
    \/ UpdateFile({FALSE})
    \/ MoveToRecycleBin({FALSE})
    \/ RestoreFromRecycleBin({FALSE})
    \/ EmptyRecycleBin({FALSE})

SpecFS == InitWindows /\ [][NextFS]_vars

\* What the slot win95-filesystem can hold when a session starts: nothing, a
\* text that is no JSON, the JSON of a value that is no folder, the JSON of a
\* tree that an earlier session saved.
StoredSlots ==
    { NoItem,
      <<"text", "{type:">>,
      JSONstringify(File("txt", 5)),
      JSONstringify(Folder([x \in {"a.txt"} |-> File("txt", 5)])) }

InitStore ==
    /\ windows = <<>>
    /\ counter = InitialCounter
    /\ draws = <<>>
    /\ viewport = [w |-> 0, h |-> 0]
    /\ initialized = FALSE
    /\ dragStart = NoDrag
    /\ now = 0
    /\ fileSystem = DEFAULT_FS_ROOT
    /\ storage \in StoredSlots
    /\ fsCalls = 0
    /\ desk = [InitialDesk EXCEPT !.FS_ROOT = ModuleLoad(storage)]
    /\ jobs = InitialJobs
    /\ game = InitialGame
    /\ ev = [op |-> "init"]

\* The page is loaded again: the module and the component state are rebuilt,
\* the slot stays.
Reload ==
    /\ initialized
    /\ windows' = <<>>
    /\ counter' = InitialCounter
    /\ draws' = <<>>
    /\ viewport' = [w |-> 0, h |-> 0]
    /\ initialized' = FALSE
    /\ dragStart' = NoDrag
    /\ fileSystem' = DEFAULT_FS_ROOT
    /\ desk' = [InitialDesk EXCEPT !.FS_ROOT = ModuleLoad(storage)]
    /\ ev' = [op |-> "reload"]
    /\ UNCHANGED <<now, storage, fsCalls, jobs, game>>

\* Sessions over a slot that earlier sessions left, with a storage whose
\* writes may fail.
NextStore ==
    \/ Mount({[w |-> 800, h |-> 600]}, {"k3x9q"})
    \/ Reload
    \/ CreateFile(BOOLEAN)
    \/ UpdateFile(BOOLEAN)
    \/ MoveToRecycleBin(BOOLEAN)
    \/ RestoreFromRecycleBin(BOOLEAN)
    \/ EmptyRecycleBin(BOOLEAN)

SpecStore == InitStore /\ [][NextStore]_vars

----------------------------------------------------------------------------
(* Desktop icons, the file browser and the drag of an item.  Date.now() of   *)
(* a session is far from 0, the initial value of every lastClickRef: the     *)
(* sessions of this part start at SessionStart.                              *)

SessionStart == 1000

\* milliseconds that pass between two events
Gaps == {299, 300, 301}

\* the icons that are clicked
ClickedIcons == {"notepad", "recycle-bin"}

InitSession ==
    /\ windows = <<>>
    /\ counter = InitialCounter
    /\ draws = <<>>
    /\ viewport = [w |-> 0, h |-> 0]
    /\ initialized = FALSE
    /\ dragStart = NoDrag
    /\ now = SessionStart
    /\ fileSystem = DEFAULT_FS_ROOT
    /\ storage = NoItem
    /\ fsCalls = 0
    /\ desk = InitialDesk
    /\ jobs = InitialJobs
    /\ game = InitialGame
    /\ ev = [op |-> "init"]

\* the model follows one file browser and one editor at a time
OneAtATime(type) ==
    type \in {"file-explorer", "notepad"} =>
        \A i \in 1..Len(windows) : windows[i].type # type

Elapse ==
    /\ \E d \in Gaps :
        /\ now + d <= SessionStart + MaxElapsed
        /\ now' = now + d
    /\ ev' = [op |-> "tick"]
    /\ UNCHANGED <<winVars, fsVars, extVars>>

\* a click on a desktop icon: DesktopIcon.handleClick, with onOpen the icon's
\* call of openApp and onSelect = setSelectedIcon(key)
IconClick(keys) ==
    /\ initialized
    /\ \E key \in keys, r \in {"k3x9q"} :
        LET last == desk.lastClick[key]
            act == handleClick(last, now)
            call == DesktopIcons[key]
            id == MakeId(call[1], now, r)
        IN
        /\ IF act = "open"
           THEN /\ Len(windows) < MaxWindows
                /\ counter < InitialCounter + MaxNext
                /\ windows' = openApp(windows, call[1], call[2], id, next,
                                      randPosition(Len(windows) * 12, 50, 50))
                /\ counter' = next
                /\ draws' = Append(draws, next)
                /\ OneAtATime(call[1])
                /\ desk' = Rendering([desk EXCEPT !.lastClick[key] = now], call)
           ELSE /\ desk' = [desk EXCEPT !.lastClick[key] = now, !.selectedIcon = key]
                /\ UNCHANGED <<windows, counter, draws>>
        /\ ev' = [op |-> "iconClick", key |-> key, last |-> last, result |-> act]
    /\ UNCHANGED <<viewport, initialized, dragStart, now, fsVars, jobs, game>>

NextIcons ==
    \/ Mount({[w |-> 800, h |-> 600]}, {"k3x9q"})
    \/ Elapse
    \/ IconClick(ClickedIcons)
    \/ CloseWindow

SpecIcons == InitSession /\ [][NextIcons]_vars

\* the file browser window, when one is open and shown
BrowserShown ==
    \E i \in 1..Len(windows) : windows[i].type = "file-explorer" /\ ~windows[i].minimized

BrowserId ==
    windows[CHOOSE i \in 1..Len(windows) : windows[i].type = "file-explorer"].id

\* getBoundingClientRect() of the Recycle Bin icon, the fourth of the icon
\* column, in a viewport of 800 x 600
BinRect == [left |-> 16, top |-> 376, right |-> 104, bottom |-> 480]

PressPoints == { [x |-> 200, y |-> 200] }

MovePoints ==
    { [x |-> 205, y |-> 195], [x |-> 206, y |-> 200], [x |-> 200, y |-> 194],
      [x |-> 50, y |-> 400] }

ReleasePoints ==
    { [x |-> 50, y |-> 400], [x |-> 104, y |-> 480], [x |-> 105, y |-> 480],
      [x |-> 300, y |-> 300] }

\* mousedown on an entry of the file browser: the entry's listeners are added
\* to the document, and the event reaches the window, which is focused
ItemMouseDown ==
    /\ initialized
    /\ BrowserShown
    /\ ~desk.dragState.isDragging
    /\ ~desk.press.pressed
    /\ counter < InitialCounter + MaxNext
    /\ \E name \in rightPaneItems(fileSystem, desk.path), p \in PressPoints :
        LET node == getNodeByPath(fileSystem, desk.path).children[name] IN
        /\ desk' = [desk EXCEPT !.press =
                       [pressed |-> TRUE, start |-> p,
                        item |-> DragItem(name, node.type = "folder", desk.path)]]
        /\ ev' = [op |-> "itemMouseDown", name |-> name, point |-> p]
    /\ windows' = bringToFront(windows, next, BrowserId)
    /\ counter' = next
    /\ draws' = Append(draws, next)
    /\ UNCHANGED <<viewport, initialized, dragStart, now, fsVars, jobs, game>>

\* mousemove: the listener of the pressed entry, or, while dragging, the
\* listener of the Page
PointerMove ==
    /\ initialized
    /\ desk.press.pressed \/ desk.dragState.isDragging
    /\ \E p \in MovePoints :
        /\ desk' =
             IF desk.dragState.isDragging
             THEN [desk EXCEPT !.dragState = handleDragMove(@, p)]
             ELSE IF StartsDrag(desk.press.start, p)
             THEN [desk EXCEPT !.dragState = handleStartDrag(desk.press.item, p),
                               !.press = NoPress]
             ELSE desk
        /\ ev' = [op |-> "pointerMove", point |-> p]
    /\ UNCHANGED <<winVars, fsVars, now, jobs, game>>

\* mouseup: the listener of the pressed entry, or, while dragging, the drop
\* overlay (handleDropToRecycleBin when the point is in the Recycle Bin icon)
\* and then the listener of the Page
PointerUp ==
    /\ initialized
    /\ desk.press.pressed \/ desk.dragState.isDragging
    /\ \E p \in ReleasePoints :
        LET item == desk.dragState.item
            drops == desk.dragState.isDragging /\ Inside(BinRect, p) /\ item # Null
            out == moveToRecycleBin(fileSystem, item.originalLocation, item.name, now, now)
        IN
        /\ IF drops
           THEN /\ fsCalls < MaxCalls
                /\ Called(out, FALSE)
                /\ ev' = [op |-> "pointerUp", point |-> p, dragged |-> item,
                          calls |-> << [path |-> item.originalLocation, name |-> item.name,
                                        result |-> out.result] >>]
           ELSE /\ UNCHANGED fsVars
                /\ ev' = [op |-> "pointerUp", point |-> p, dragged |-> item, calls |-> <<>>]
        /\ desk' = [desk EXCEPT !.dragState = handleEndDrag, !.press = NoPress]
    /\ UNCHANGED <<winVars, now, jobs, game>>

\* a double click on an entry of the file browser: openItem(item.name), with
\* onOpenApp the openApp of the Page
ItemDoubleClick ==
    /\ initialized
    /\ BrowserShown
    /\ ~desk.dragState.isDragging
    /\ \E name \in rightPaneItems(fileSystem, desk.path), r \in {"0a7fz"} :
        LET does == openItem(fileSystem, desk.path, name) IN
        /\ CASE does.kind = "path" ->
                   /\ desk' = [desk EXCEPT !.path = does.path]
                   /\ UNCHANGED <<windows, counter, draws>>
             [] does.kind = "open" ->
                   /\ Len(windows) < MaxWindows
                   /\ counter < InitialCounter + MaxNext
                   /\ OneAtATime(does.call[1])
                   /\ windows' = openApp(windows, does.call[1], does.call[2],
                                         MakeId(does.call[1], now, r), next,
                                         randPosition(Len(windows) * 12, 50, 50))
                   /\ counter' = next
                   /\ draws' = Append(draws, next)
                   /\ desk' = Rendering(desk, does.call)
             [] OTHER -> UNCHANGED <<desk, windows, counter, draws>>
        /\ ev' = [op |-> "openItem", path |-> desk.path, name |-> name, kind |-> does.kind]
    /\ UNCHANGED <<viewport, initialized, dragStart, fsVars, now, jobs, game>>

\* the toolbar's Up button
GoUp ==
    /\ initialized
    /\ BrowserShown
    /\ ~desk.dragState.isDragging
    /\ Len(desk.path) > 0
    /\ desk' = [desk EXCEPT !.path = SubSeq(@, 1, Len(@) - 1)]
    /\ ev' = [op |-> "goUp"]
    /\ UNCHANGED <<winVars, fsVars, now, jobs, game>>

NextDrag ==
    \/ Mount({[w |-> 800, h |-> 600]}, {"k3x9q"})
    \/ IconClick({"my-computer"})
    \/ ItemDoubleClick
    \/ GoUp
    \/ ItemMouseDown
    \/ PointerMove
    \/ PointerUp

SpecDrag == InitSession /\ [][NextDrag]_vars

\* the editor window, when one is open and shown
EditorShown ==
    \E i \in 1..Len(windows) : windows[i].type = "notepad" /\ ~windows[i].minimized

\* the tree that the module's FS_ROOT refers to
FsRootTree == IF desk.FS_ROOT.shared THEN fileSystem ELSE desk.FS_ROOT.tree

\* what the user answers to prompt(): Cancel, or OK with a text
PromptAnswers ==
    { [ok |-> FALSE], [ok |-> TRUE, text |-> " "], [ok |-> TRUE, text |-> "notes"],
      [ok |-> TRUE, text |-> "notes.txt"], [ok |-> TRUE, text |-> "Untitled"] }

\* String.prototype.trim on the texts of the model
Trim(text) == IF text = " " THEN "" ELSE text

\* handleSaveAs: fullFilename
FullFilename(text) ==
    IF EndsWith(Trim(text), ".txt") THEN Trim(text) ELSE Trim(text) \o ".txt"

\* handleSaveAs: the overwrite confirmation is shown
AsksOverwrite(root, fullFilename, currentFile) ==
    LET desktopFolder == getNodeByPath(root, <<"C:", "Desktop">>) IN
    /\ desktopFolder.type = "folder"
    /\ fullFilename \in DOMAIN desktopFolder.children
    /\ fullFilename # currentFile

\* NotepadApp.handleContentChange
EditorType ==
    /\ initialized
    /\ EditorShown
    /\ \E text \in Contents :
        /\ desk' = [desk EXCEPT !.editor.content = text, !.editor.isModified = TRUE]
        /\ ev' = [op |-> "type", text |-> text]
    /\ UNCHANGED <<winVars, fsVars, now, jobs, game>>

\* NotepadApp.handleSaveAs, with onCreateFile = createFilePersistent and
\* onUpdateFile = updateFilePersistent
SaveAs(answers) ==
    /\ initialized
    /\ EditorShown
    /\ \E answer \in answers, overwrite \in BOOLEAN :
        LET editor == desk.editor
            fullFilename == FullFilename(answer.text)
            found == getNodeByPath(FsRootTree, <<"C:", "Desktop">>).type = "folder"
            asks == AsksOverwrite(FsRootTree, fullFilename, editor.currentFile)
            out == IF fullFilename = editor.currentFile
                   THEN updateFile(fileSystem, <<"C:", "Desktop">>, fullFilename, editor.content)
                   ELSE createFile(fileSystem, <<"C:", "Desktop">>, fullFilename, editor.content)
            said(step, name, asked, result) ==
                [op |-> "saveAs", step |-> step, name |-> name, asked |-> asked,
                 currentFile |-> editor.currentFile, result |-> result]
        IN
        IF ~answer.ok THEN
            /\ ev' = said("cancelled", "", FALSE, "none")
            /\ UNCHANGED <<desk, fsVars>>
        ELSE IF Trim(answer.text) = "" THEN
            /\ ev' = said("invalid", "", FALSE, "none")
            /\ UNCHANGED <<desk, fsVars>>
        ELSE IF ~found THEN
            /\ ev' = said("no desktop", fullFilename, FALSE, "none")
            /\ UNCHANGED <<desk, fsVars>>
        ELSE IF asks /\ ~overwrite THEN
            /\ ev' = said("kept", fullFilename, TRUE, "none")
            /\ UNCHANGED <<desk, fsVars>>
        ELSE
            /\ fsCalls < MaxCalls
            /\ Called(out, FALSE)
            /\ desk' = IF out.result = "true"
                       THEN [desk EXCEPT !.editor.currentFile = fullFilename,
                                         !.editor.isModified = FALSE]
                       ELSE desk
            /\ ev' = said("saved", fullFilename, asks, out.result)
    /\ UNCHANGED <<winVars, now, jobs, game>>

\* Opening entries of the file browser, among them files saved from the editor.
NextBrowse ==
    \/ Mount({[w |-> 800, h |-> 600]}, {"k3x9q"})
    \/ CloseWindow
    \/ IconClick({"my-computer", "notepad"})
    \/ ItemDoubleClick
    \/ GoUp
    \/ EditorType
    \/ SaveAs({a \in PromptAnswers : a.ok => a.text = "notes"})

SpecBrowse == InitSession /\ [][NextBrowse]_vars

\* Saving files from the editor, over several page loads.
NextEditor ==
    \/ Mount({[w |-> 800, h |-> 600]}, {"k3x9q"})
    \/ Reload
    \/ CloseWindow
    \/ IconClick({"notepad"})
    \/ EditorType
    \/ SaveAs(PromptAnswers)

SpecEditor == InitSession /\ [][NextEditor]_vars

----------------------------------------------------------------------------
(* The document workflow of src/src/app/unique-resume/actions.ts.  Every    *)
(* await of processJobPostingAction is a step: between two steps of one      *)
(* invocation the steps of another may run.  The outcome of a command or of  *)
(* a file operation is the environment's choice.                            *)

\* a submitted form value: no value, or a text; a text that is the decimal
\* form of an integer is given by the integer
Missing == [kind |-> "missing"]
Text(t) == [kind |-> "text", text |-> t]
IntText(n) == [kind |-> "int", n |-> n]

\* formData.get(key) || fallback: the fallback replaces null and ''
OrDefault(value, fallback) ==
    IF value = Missing \/ value = Text("") THEN fallback ELSE value

\* Number.parseInt(raw, 10)
NaN == [nan |-> TRUE]
parseInt(raw) == IF raw.kind = "int" THEN [nan |-> FALSE, n |-> raw.n] ELSE NaN

\* Math.max(0, Math.min(10, Number.parseInt(embellishmentRaw, 10) || 5))
Embellishment(value) ==
    LET parsed == parseInt(OrDefault(value, IntText(5)))
        number == IF parsed = NaN \/ parsed.n = 0 THEN 5 ELSE parsed.n
    IN Max(0, Min(10, number))

\* !text.trim()
IsBlank(text) == text \in {"", " "}

\* the result of an invocation that has not returned, of a failed one, and of
\* one whose main.py succeeded
NoResult == [pending |-> TRUE]
Failed == [ok |-> FALSE]
Processed(pdfAvailable) == [ok |-> TRUE, pdfAvailable |-> pdfAvailable, texAvailable |-> TRUE]

compileCandidates == <<"pdflatex", "xelatex", "lualatex">>

\* the loop over compileCandidates: the step after compiler number k
\* finished, "return" when the loop is left
AfterCompile_noBreak(k, ok) ==
    IF k < Len(compileCandidates) THEN compileCandidates[k + 1] ELSE "return"

AfterCompile(k, ok) ==
    IF ok THEN "return"
    ELSE IF k < Len(compileCandidates) THEN compileCandidates[k + 1] ELSE "return"

\* the step after pip install finished: the API key is looked up next
AfterInstall_failureStops(ok, apiKey) == IF ok /\ apiKey THEN "import" ELSE "return"

AfterInstall(ok, apiKey) == IF apiKey THEN "import" ELSE "return"

JobTexts == {"", " ", "job A", "job B"}

FormLevels == {Missing, Text("abc"), IntText(-1), IntText(0), IntText(3), IntText(10), IntText(11)}

Inv(i) == jobs.running[i]

\* the invocation i after command cmd ran with outcome ok, at step pc next
Ran(i, cmd, ok, pc) ==
    [Inv(i) EXCEPT !.ran = Append(@, [cmd |-> cmd, ok |-> ok]), !.pc = pc]

\* the invocation i returning result
Returned(r, result) == [r EXCEPT !.pc = "done", !.result = result]

\* the state after a step of invocation i
Stepped(i, r, step, ok) ==
    /\ jobs' = [jobs EXCEPT !.running[i] = r]
    /\ ev' = [op |-> "job", id |-> i, step |-> step, ok |-> ok]
    /\ UNCHANGED <<winVars, fsVars, now, desk, game>>

\* processJobPostingAction(formData) up to its first await
Submit(ids, texts, levels) ==
    \E i \in ids, text \in texts, level \in levels :
        /\ Inv(i).pc \in {"idle", "done"}
        /\ LET r == [pc |-> "mkdir", text |-> text, level |-> Embellishment(level),
                     submitted |-> level, ran |-> <<>>, apiKey |-> TRUE, read |-> "none",
                     result |-> NoResult]
           IN Stepped(i, IF IsBlank(text) THEN Returned(r, Failed) ELSE r, "submit", TRUE)

\* await ensureRuntimeDirReady(); an error goes to the outer catch
Prepare(ids, outcomes) ==
    \E i \in ids, ok \in outcomes :
        /\ Inv(i).pc = "mkdir"
        /\ Stepped(i, IF ok THEN [Inv(i) EXCEPT !.pc = "write"] ELSE Returned(Inv(i), Failed),
                   "mkdir", ok)

\* await writeFile(JOB_POSTING_PATH, text); an error goes to the outer catch
WriteJob(ids, outcomes) ==
    \E i \in ids, ok \in outcomes :
        /\ Inv(i).pc = "write"
        /\ jobs' = [jobs EXCEPT
                      !.job_posting = IF ok THEN Inv(i).text ELSE @,
                      !.running[i] = IF ok THEN Ran(i, "write", TRUE, "python3")
                                     ELSE Returned(Ran(i, "write", FALSE, "done"), Failed)]
        /\ ev' = [op |-> "job", id |-> i, step |-> "write", ok |-> ok]
        /\ UNCHANGED <<winVars, fsVars, now, desk, game>>

\* python3 --version, python3 -m pip --version, and the import test: a
\* failure returns
Check(ids, outcomes) ==
    \E i \in ids, ok \in outcomes :
        /\ Inv(i).pc \in {"python3", "pip", "import"}
        /\ LET pc == Inv(i).pc
               then == CASE pc = "python3" -> "pip" [] pc = "pip" -> "ls" [] OTHER -> "main"
           IN Stepped(i, IF ok THEN Ran(i, pc, TRUE, then)
                         ELSE Returned(Ran(i, pc, FALSE, "done"), Failed), pc, ok)

\* ls venv/bin/python3: the virtual environment is there, or is to be created
CheckVenv(ids, outcomes) ==
    \E i \in ids, ok \in outcomes :
        /\ Inv(i).pc = "ls"
        /\ Stepped(i, Ran(i, "ls", ok, IF ok THEN "install" ELSE "venv"), "ls", ok)

\* python3 -m venv venv
CreateVenv(ids, outcomes) ==
    \E i \in ids, ok \in outcomes :
        /\ Inv(i).pc = "venv"
        /\ Stepped(i, IF ok THEN Ran(i, "venv", TRUE, "install")
                      ELSE Returned(Ran(i, "venv", FALSE, "done"), Failed), "venv", ok)

\* pip install -r requirements.txt, then the API key of the environment
Install(ids, outcomes, keys) ==
    \E i \in ids, ok \in outcomes, apiKey \in keys :
        /\ Inv(i).pc = "install"
        /\ LET then == AfterInstall(ok, apiKey)
               r == [Ran(i, "install", ok, then) EXCEPT !.apiKey = apiKey]
           IN Stepped(i, IF then = "return" THEN Returned(r, Failed) ELSE r, "install", ok)

\* main.py job_posting.txt -e level: reads job_posting.txt and writes Output_CV.tex
RunMain(ids, outcomes) ==
    \E i \in ids, ok \in outcomes :
        /\ Inv(i).pc = "main"
        /\ LET r == [Inv(i) EXCEPT
                       !.ran = Append(@, [cmd |-> "main", ok |-> ok, level |-> Inv(i).level]),
                       !.read = jobs.job_posting,
                       !.pc = compileCandidates[1]]
           IN
           /\ jobs' = [jobs EXCEPT
                         !.Output_CV = IF ok THEN jobs.job_posting ELSE @,
                         !.running[i] = IF ok THEN r ELSE Returned(r, Failed)]
           /\ ev' = [op |-> "job", id |-> i, step |-> "main", ok |-> ok]
           /\ UNCHANGED <<winVars, fsVars, now, desk, game>>

\* one turn of the loop over compileCandidates, and the return after the loop
Compile(ids, outcomes) ==
    \E i \in ids, ok \in outcomes, k \in 1..Len(compileCandidates) :
        /\ Inv(i).pc = compileCandidates[k]
        /\ LET then == AfterCompile(k, ok)
               r == Ran(i, compileCandidates[k], ok, then)
           IN
           /\ jobs' = [jobs EXCEPT
                         !.pdf = IF ok THEN jobs.Output_CV ELSE @,
                         !.running[i] = IF then = "return" THEN Returned(r, Processed(ok)) ELSE r]
           /\ ev' = [op |-> "job", id |-> i, step |-> compileCandidates[k], ok |-> ok]
           /\ UNCHANGED <<winVars, fsVars, now, desk, game>>

\* One invocation at a time, in an environment where every step may fail.
NextJob ==
    \/ Submit({1}, JobTexts, FormLevels)
    \/ Prepare({1}, BOOLEAN)
    \/ WriteJob({1}, BOOLEAN)
    \/ Check({1}, BOOLEAN)
    \/ CheckVenv({1}, BOOLEAN)
    \/ CreateVenv({1}, BOOLEAN)
    \/ Install({1}, BOOLEAN, BOOLEAN)
    \/ RunMain({1}, BOOLEAN)
    \/ Compile({1}, BOOLEAN)

SpecJob == InitWindows /\ [][NextJob]_vars

\* Invocations that overlap, in an environment where main.py gets to run.
NextJobs ==
    \/ Submit(1..MaxJobs, {"job A", "job B"}, {IntText(3)})
    \/ Prepare(1..MaxJobs, {TRUE})
    \/ WriteJob(1..MaxJobs, {TRUE})
    \/ Check(1..MaxJobs, {TRUE})
    \/ CheckVenv(1..MaxJobs, {TRUE})
    \/ Install(1..MaxJobs, BOOLEAN, {TRUE})
    \/ RunMain(1..MaxJobs, BOOLEAN)
    \/ Compile(1..MaxJobs, BOOLEAN)

SpecJobs == InitWindows /\ [][NextJobs]_vars

----------------------------------------------------------------------------
(* The typing game of src/unnamed/part_001.  A handler sets state; the      *)
(* render that follows runs, in the order of their declaration, the effects *)
(* of which a dependency changed, and the state these set is rendered in   *)
(* turn, until a render sets nothing.                                       *)

\* the prompts a fetch of words may give, and the keys pressed
Prompts == {<<>>, <<"t">>, <<"t", "o">>}
Keys == {"t", "o"}

\* the words per minute a completed prompt may give
Speeds == {40, 60}

\* input === promptString && promptString.length > 0
isPromptComplete(g) == g.input = g.promptString /\ Len(g.promptString) > 0

\* the item of a word set as the effects and getAllWpmHistory read it
ParsedHistory(store, wordSet) ==
    IF Len(store[wordSet]) # MaxLetters THEN getInitialWpmHistory ELSE store[wordSet]

\* the entries of all word sets beyond the initial ones
Entries(store) ==
    LET RECURSIVE Sum(_)
        Sum(S) == IF S = {} THEN 0
                  ELSE LET x == CHOOSE x \in S : TRUE
                       IN (Len(store[x[1]][x[2]]) - 1) + Sum(S \ {x})
    IN Sum({x \in WordSets \X Letters : Len(store[x[1]]) = MaxLetters})

\* averageWpm(history), as the sum and the number of the entries averaged:
\* of the entries after the first that have a speed, the five most recent
averageWpm(history) ==
    LET realEntries == SelectSeq(Tail(history), LAMBDA e : e # 0)
        n == Len(realEntries)
        recentEntries == SubSeq(realEntries, Max(1, n - 4), n)
        RECURSIVE Sum(_)
        Sum(q) == IF q = <<>> THEN 0 ELSE Head(q) + Sum(Tail(q))
    IN [sum |-> Sum(recentEntries), n |-> Len(recentEntries)]

IsZero(avg) == avg.n = 0 \/ avg.sum = 0
Infinity == [inf |-> TRUE]
Less(avg, minAvg) == minAvg = Infinity \/ avg.sum * minAvg.n < minAvg.sum * avg.n

\* the loop of handleReplay from letter i on: the first letter without an
\* average, or else the first of the slowest
RECURSIVE SlowestFrom(_, _, _, _)
SlowestFrom(allHistory, i, minAvg, minIdx) ==
    IF i > MaxLetters THEN minIdx
    ELSE LET avg == averageWpm(allHistory[i])
         IN IF IsZero(avg) THEN i
            ELSE IF Less(avg, minAvg) THEN SlowestFrom(allHistory, i + 1, avg, i)
            ELSE SlowestFrom(allHistory, i + 1, minAvg, minIdx)

\* the state of Home that is rendered
HomeState(g) == <<g.input, g.promptString, g.wordSet, g.letter, g.startTime, g.finishTime>>

\* the effect on [wordSet, letter] that fetches the words
FetchEffect(prev, g) ==
    IF <<prev.wordSet, prev.letter>> # <<g.wordSet, g.letter>>
    THEN [g EXCEPT !.fetches = @ \cup {"effect"}] ELSE g

\* the effect on [wordSet, letter] that loads or initialises the history
LoadEffect(prev, g) ==
    IF <<prev.wordSet, prev.letter>> # <<g.wordSet, g.letter>>
    THEN [g EXCEPT !.localStorage[g.wordSet] = ParsedHistory(g.localStorage, g.wordSet)]
    ELSE g

\* the effect on [isPromptComplete, startTime, finishTime, input, letter,
\* wordSet] that appends an entry; cur is the state that was rendered
CompletionEffect(prev, cur, g) ==
    IF /\ <<isPromptComplete(prev), prev.startTime, prev.finishTime, prev.input, prev.letter,
            prev.wordSet>>
          # <<isPromptComplete(cur), cur.startTime, cur.finishTime, cur.input, cur.letter,
              cur.wordSet>>
       /\ isPromptComplete(cur) /\ cur.startTime /\ cur.finishTime # 0
    THEN LET parsed == ParsedHistory(g.localStorage, cur.wordSet)
         IN [g EXCEPT !.localStorage[cur.wordSet] =
                          [parsed EXCEPT ![cur.letter] = Append(@, cur.finishTime)]]
    ELSE g

\* the effect on [input, isPromptComplete, startTime, finishTime] that
\* starts, stops and clears the timer; speed is what Date.now() will give
TimerEffect(prev, cur, g, speed) ==
    IF <<prev.input, isPromptComplete(prev), prev.startTime, prev.finishTime>>
       = <<cur.input, isPromptComplete(cur), cur.startTime, cur.finishTime>>
    THEN g
    ELSE LET started == (Len(cur.input) = 1 /\ ~cur.startTime) \/ cur.startTime
             finished == IF isPromptComplete(cur) /\ cur.startTime /\ cur.finishTime = 0
                         THEN speed ELSE cur.finishTime
         IN IF Len(cur.input) = 0
            THEN [g EXCEPT !.startTime = FALSE, !.finishTime = 0]
            ELSE [g EXCEPT !.startTime = started, !.finishTime = finished]

\* the renders after a handler: prev is the state of the render before, cur
\* the state the handler or the effects of the last render set
RECURSIVE Render(_, _, _)
Render(prev, cur, speed) ==
    LET g == TimerEffect(prev, cur,
                 CompletionEffect(prev, cur, LoadEffect(prev, FetchEffect(prev, cur))), speed)
    IN IF HomeState(g) = HomeState(cur) THEN g ELSE Render(cur, g, speed)

\* the state after a handler set the state to cur
Play(op, cur, speed) ==
    /\ game' = Render(game, cur, speed)
    /\ ev' = [op |-> op, completed |-> isPromptComplete(cur) /\ ~isPromptComplete(game),
              before |-> game.localStorage]
    /\ UNCHANGED <<winVars, fsVars, now, desk, jobs>>

\* handleKeyDown, a key of one character or Backspace
TypeKey ==
    \E key \in Keys, speed \in Speeds :
        /\ Entries(game.localStorage) < MaxEntries
        /\ Len(game.input) < Len(game.promptString)
        /\ LET typed == [game EXCEPT !.input = Append(@, key)]
           IN Play("key",
                   IF isPromptComplete(typed)
                   THEN [typed EXCEPT !.completions[game.wordSet][game.letter] = @ + 1]
                   ELSE typed, speed)

Backspace ==
    /\ Len(game.input) > 0
    /\ Play("backspace", [game EXCEPT !.input = SubSeq(@, 1, Len(@) - 1)], 40)

\* handleReplay(), from the Replay button or the Enter key, up to the fetch
Replay ==
    /\ isPromptComplete(game)
    /\ Entries(game.localStorage) < MaxEntries
    /\ "replay" \notin game.fetches
    /\ LET allHistory == ParsedHistory(game.localStorage, game.wordSet)
           nextLetter == SlowestFrom(allHistory, 1, Infinity, 1)
       IN /\ nextLetter # game.letter => "effect" \notin game.fetches
          /\ Play("replay", [game EXCEPT !.localStorage[game.wordSet] = allHistory,
                                         !.letter = nextLetter,
                                         !.fetches = @ \cup {"replay"}], 40)

\* the word set chosen in the settings
ChangeWordSet ==
    \E wordSet \in WordSets \ {game.wordSet} :
        /\ Entries(game.localStorage) < MaxEntries
        /\ "effect" \notin game.fetches
        /\ Play("wordSet", [game EXCEPT !.wordSet = wordSet], 40)

\* a fetch of words answers: the prompt is replaced and the input cleared,
\* and after a Replay the timer too
WordsFetched ==
    \E kind \in game.fetches, prompt \in Prompts :
        LET g == [game EXCEPT !.promptString = prompt, !.input = <<>>,
                              !.fetches = @ \ {kind}]
        IN Play("fetched", IF kind = "replay"
                           THEN [g EXCEPT !.startTime = FALSE, !.finishTime = 0]
                           ELSE g, 40)

NextGame ==
    \/ TypeKey
    \/ Backspace
    \/ Replay
    \/ ChangeWordSet
    \/ WordsFetched

SpecGame == InitWindows /\ [][NextGame]_vars

----------------------------------------------------------------------------
(* Claims about the window manager. *)

Indices(ws) == 1..Len(ws)

\* the fields of a window other than those in changed are the same in v and w
SameExcept(v, w, changed) ==
    /\ DOMAIN v = DOMAIN w
    /\ \A k \in DOMAIN w \ changed : v[k] = w[k]

\* the windows a call with identifier id acts on
Affected(ws, id) == {i \in Indices(ws) : ws[i].id = id}

\* C1: after any sequence of openWindow and closeWindow calls (including the
\* About window opened at session start) no two windows of the window list
\* have the same identifier.
C1_UniqueIds ==
    \A i, j \in Indices(windows) : i # j => windows[i].id # windows[j].id

\* C2: whenever some window is not minimized, exactly one unminimized window
\* holds the maximum stacking value, and no two open windows share a z.
C2_UniqueTop ==
    LET shown == {i \in Indices(windows) : ~windows[i].minimized}
        top == {i \in shown : \A j \in shown : windows[i].z >= windows[j].z}
    IN  /\ shown # {} => Cardinality(top) = 1
        /\ \A i, j \in Indices(windows) : i # j => windows[i].z # windows[j].z

\* C3: after focus(id) and after every openWindow the affected window's z is
\* above the z of every other window and above every z handed out earlier:
\* the values next() returns are strictly increasing in call order.
C3_FocusStrictlyTop ==
    /\ \A a, b \in Indices(draws) : a < b => draws[a] < draws[b]
    /\ ev.op = "openApp" =>
        /\ windows[Len(windows)].z = draws[Len(draws)]
        /\ \A j \in 1..(Len(windows) - 1) : windows[Len(windows)].z > windows[j].z
    /\ ev.op \in {"bringToFront", "taskbarClick"} =>
        \A i \in Affected(windows, ev.id) :
            /\ windows[i].z = draws[Len(draws)]
            /\ \A j \in Indices(windows) \ Affected(windows, ev.id) : windows[i].z > windows[j].z

\* C4: closeWindow(id) removes exactly the windows whose identifier is id and
\* leaves every other window, field by field, and the list order unchanged;
\* with no such window the list is unchanged.
C4_CloseRemovesOnlyId ==
    [][ev'.op = "closeWindow" =>
        LET keep == Indices(windows) \ Affected(windows, ev'.id)
            Rank(i) == Cardinality({j \in keep : j <= i})
        IN  /\ Len(windows') = Cardinality(keep)
            /\ \A i \in keep : windows'[Rank(i)] = windows[i]
            /\ Affected(windows', ev'.id) = {}
            /\ Affected(windows, ev'.id) = {} => windows' = windows]_vars

C4_Witness ==
    /\ ev.op = "closeWindow"
    /\ ev.id # GhostId
    /\ Len(windows) = 1
    /\ ev.id \notin IdsOf(windows)

\* C5: toggleMinimize(id) flips only the minimized flag of window id; the
\* window keeps its place in the list and in the taskbar, it is rendered
\* exactly when the flag is false, every other window is unchanged, and a
\* second toggleMinimize(id) restores the list.
C5_ToggleFlipsOnlyFlag ==
    [][ev'.op = "toggleMinimize" =>
        /\ Len(windows') = Len(windows)
        /\ TaskbarButtons(windows') = TaskbarButtons(windows)
        /\ \A i \in Indices(windows) :
            IF windows[i].id = ev'.id
            THEN /\ windows'[i].minimized = ~windows[i].minimized
                 /\ SameExcept(windows'[i], windows[i], {"minimized"})
                 /\ Rendered(windows'[i]) <=> ~windows'[i].minimized
                 /\ Rendered(windows'[i]) <=> ~Rendered(windows[i])
            ELSE windows'[i] = windows[i]
        /\ toggleMinimize(windows', ev'.id) = windows]_vars

C5_Witness ==
    /\ ev.op = "toggleMinimize"
    /\ Len(windows) = 2
    /\ \E i, j \in Indices(windows) :
        /\ windows[i].id = ev.id
        /\ windows[i].minimized
        /\ windows[j].id # ev.id
        /\ ~windows[j].minimized

\* C6: moveWindow(id, (px, py)) under a viewport (w, h) sets the position of
\* window id to x = min(max(0, px), max(0, w - 344)) and
\* y = min(max(0, py), max(0, h - 248)), within 0..max(0, w - 344) and
\* 0..max(0, h - 248); nothing else changes.  (w, h) is the viewport the
\* moveWindow that runs has read: during a drag, the one of the render in
\* which the title bar was pressed.
C6_MoveClamps ==
    [][ev'.op = "moveWindow" =>
        LET px == ev'.pos.x
            py == ev'.pos.y
            mx == Max(0, ev'.vp.w - 344)
            my == Max(0, ev'.vp.h - 248)
        IN  /\ Len(windows') = Len(windows)
            /\ \A i \in Indices(windows) :
                IF windows[i].id = ev'.id
                THEN /\ windows'[i].position = [x |-> Min(Max(0, px), mx), y |-> Min(Max(0, py), my)]
                     /\ windows'[i].position.x \in 0..mx
                     /\ windows'[i].position.y \in 0..my
                     /\ SameExcept(windows'[i], windows[i], {"position"})
                ELSE windows'[i] = windows[i]]_vars

C6_Witness ==
    /\ ev.op = "moveWindow"
    /\ ev.pos = [x |-> 5000, y |-> -50]
    /\ ev.vp = [w |-> 800, h |-> 600]
    /\ \E i \in Indices(windows) :
        /\ windows[i].id = ev.id
        /\ windows[i].position = [x |-> 456, y |-> 0]

----------------------------------------------------------------------------
(* Claims about the file system. *)

\* the paths of all nodes of the tree under node, the empty path for node itself
RECURSIVE PathsOf(_)
PathsOf(node) ==
    IF node.type # "folder" THEN {<<>>}
    ELSE {<<>>} \cup UNION { {<<n>> \o p : p \in PathsOf(node.children[n])} : n \in DOMAIN node.children }

\* a and b are the same node: the same fields and, for folders, the same child
\* names apart from those in except
SameNode(a, b, except) ==
    /\ DOMAIN a = DOMAIN b
    /\ \A k \in DOMAIN a \ {"children"} : a[k] = b[k]
    /\ Has(a, "children") => DOMAIN a.children \ except = DOMAIN b.children \ except

\* the entries of the root-level Recycle Bin folder of root, none without one
BinEntries(root) ==
    LET recycleBin == Get(root.children, "Recycle Bin") IN
    IF recycleBin.type = "folder" THEN recycleBin.children ELSE <<>>

\* C7: createFile(path, name, content) returns false when path does not
\* resolve to a folder; otherwise it returns true, path + [name] then resolves
\* to a File node with size Len(content) and that content, in place of any
\* child stored under name before, and every other node is unchanged.
C7_CreateFileWrites ==
    [][ev'.op = "createFile" =>
        LET path == ev'.path
            target == Append(ev'.path, ev'.name)
            folder == getNodeByPath(fileSystem, path)
            created == getNodeByPath(fileSystem', target)
        IN  IF folder.type # "folder" THEN ev'.result = "false"
            ELSE /\ ev'.result = "true"
                 /\ created.type = "file"
                 /\ created.size = Len(ev'.content)
                 /\ Has(created, "content") /\ created.content = ev'.content
                 /\ PathsOf(created) = {<<>>}
                 /\ \A q \in PathsOf(fileSystem) \cup PathsOf(fileSystem') :
                        ~IsPrefix(target, q) =>
                            SameNode(getNodeByPath(fileSystem', q), getNodeByPath(fileSystem, q),
                                     IF q = path THEN {ev'.name} ELSE {})]_vars

C7_Witness ==
    /\ ev.op = "createFile"
    /\ ev.result = "true"
    /\ ev.path = <<"C:", "Desktop">>
    /\ ev.name = "About.lnk"
    /\ ev.content = "hello"
    /\ getNodeByPath(fileSystem, <<"C:", "Desktop", "About.lnk">>).size = 5

\* C8: updateFile(path, name, content) returns false when path does not
\* resolve to a folder or the folder has no File child called name (a Folder
\* child fails too); otherwise it returns true and changes only the size, to
\* Len(content), and the content of that file; it never creates a child.
C8_UpdateFileWrites ==
    [][ev'.op = "updateFile" =>
        LET path == ev'.path
            target == Append(ev'.path, ev'.name)
            folder == getNodeByPath(fileSystem, path)
            file == IF folder.type = "folder" THEN Get(folder.children, ev'.name) ELSE Null
            written == getNodeByPath(fileSystem', target)
        IN  /\ PathsOf(fileSystem') = PathsOf(fileSystem)
            /\ IF file.type # "file" THEN ev'.result = "false"
               ELSE /\ ev'.result = "true"
                    /\ written.size = Len(ev'.content)
                    /\ Has(written, "content") /\ written.content = ev'.content
                    /\ DOMAIN written = DOMAIN file \cup {"content"}
                    /\ \A k \in DOMAIN file \ {"size", "content"} : written[k] = file[k]
                    /\ \A q \in PathsOf(fileSystem) \ {target} :
                           SameNode(getNodeByPath(fileSystem', q), getNodeByPath(fileSystem, q), {})]_vars

C8_Witness ==
    /\ ev.op = "updateFile"
    /\ ev.result = "true"
    /\ ev.path = <<"C:", "Desktop">>
    /\ ev.name = "About.lnk"
    /\ ev.content = "hello"
    /\ getNodeByPath(fileSystem, <<"C:", "Desktop", "About.lnk">>)
           = [type |-> "file", ext |-> "lnk", size |-> 5, content |-> "hello"]

\* C9: a successful moveToRecycleBin(path, name) leaves a root-level Recycle
\* Bin folder holding exactly one entry more than before, which carries the
\* moved item's data with originalPath = path, originalName = name and a
\* deletion timestamp; name is no longer a child of the folder at path, and
\* that folder's other children and every other folder are unchanged.
C9_MoveAddsOneEntry ==
    [][(ev'.op = "moveToRecycleBin" /\ ev'.result = "true") =>
        LET path == ev'.path
            name == ev'.name
            item == getNodeByPath(fileSystem, Append(path, name))
            old == BinEntries(fileSystem)
            new == BinEntries(fileSystem')
            moved == IF path = <<"Recycle Bin">> THEN {name} ELSE {}
            source == getNodeByPath(fileSystem', path)
        IN  /\ Get(fileSystem'.children, "Recycle Bin").type = "folder"
            /\ \E rn \in DOMAIN new \ DOMAIN old :
                /\ DOMAIN new \ {rn} = DOMAIN old \ moved
                /\ \A n \in DOMAIN old \ moved : new[n] = old[n]
                /\ DOMAIN new[rn] = DOMAIN item \cup {"originalPath", "originalName", "deletedAt"}
                /\ \A k \in DOMAIN item \ {"originalPath", "originalName", "deletedAt"} :
                       new[rn][k] = item[k]
                /\ new[rn].originalPath = path
                /\ new[rn].originalName = name
            /\ source.type = "folder"
            /\ name \notin DOMAIN source.children
            /\ \A q \in PathsOf(fileSystem) :
                   (~IsPrefix(Append(path, name), q) /\ ~IsPrefix(<<"Recycle Bin">>, q) /\ q # <<>>) =>
                       SameNode(getNodeByPath(fileSystem', q), getNodeByPath(fileSystem, q),
                                IF q = path THEN {name} ELSE {})]_vars

\* C10: the name under which moveToRecycleBin stores an entry is not the name
\* of an entry already in the Recycle Bin, so no deletion overwrites the entry
\* of an earlier one, also when the clock has not advanced between the two.
C10_RecycledNameIsFresh ==
    [][(ev'.op = "moveToRecycleBin" /\ ev'.result = "true") =>
        ev'.recycledName \notin DOMAIN BinEntries(fileSystem)]_vars

\* a and b hold the same item: both folders, or files with the same data
SameItem(a, b) ==
    /\ a.type = b.type
    /\ a.type = "file" =>
        /\ a.ext = b.ext
        /\ a.size = b.size
        /\ Has(a, "content") = Has(b, "content")
        /\ Has(a, "content") => a.content = b.content

FsOps == {"createFile", "updateFile", "moveToRecycleBin", "restoreFromRecycleBin", "emptyRecycleBin"}

\* C11: a successful moveToRecycleBin erases nothing: every file and folder of
\* the tree before the call is in the tree after it, at its old path or
\* inside the root-level Recycle Bin folder.
C11_MoveErasesNothing ==
    [][(ev'.op = "moveToRecycleBin" /\ ev'.result = "true") =>
        \A q \in PathsOf(fileSystem) \ {<<>>} :
            \/ SameItem(getNodeByPath(fileSystem', q), getNodeByPath(fileSystem, q))
            \/ \E p \in PathsOf(fileSystem') :
                /\ IsPrefix(<<"Recycle Bin">>, p)
                /\ SameItem(getNodeByPath(fileSystem', p), getNodeByPath(fileSystem, q))]_vars

\* C12: a file-system operation that returns false leaves the tree as it was;
\* moveToRecycleBin on a path that does not resolve to a folder or on a name
\* that is no child of it returns false and creates no Recycle Bin folder.
C12_FalseChangesNothing ==
    [][ev'.op \in FsOps =>
        /\ ev'.result = "false" => fileSystem' = fileSystem
        /\ ev'.op = "moveToRecycleBin" =>
            LET sourceFolder == getNodeByPath(fileSystem, ev'.path) IN
            (sourceFolder.type # "folder" \/ ev'.name \notin DOMAIN sourceFolder.children) =>
                /\ ev'.result = "false"
                /\ ("Recycle Bin" \in DOMAIN fileSystem'.children)
                       = ("Recycle Bin" \in DOMAIN fileSystem.children)]_vars

C12_Witness ==
    /\ ev.op = "moveToRecycleBin"
    /\ ev.result = "false"
    /\ ev.path = <<"C:", "Desktop">>
    /\ ev.name = "C:"
    /\ fsCalls = 1
    /\ "Recycle Bin" \notin DOMAIN fileSystem.children

WithoutMetadata(node) ==
    [k \in DOMAIN node \ {"originalPath", "originalName", "deletedAt"} |-> node[k]]

\* C14: a successful restoreFromRecycleBin(recycledName) stores at the entry's
\* original path, under its original name, the recycled item without its
\* metadata, in place of any node stored there, and removes the entry from
\* the Recycle Bin; every other entry of the bin and every other node is
\* unchanged.
C14_RestorePutsBack ==
    [][(ev'.op = "restoreFromRecycleBin" /\ ev'.result = "true") =>
        LET old == BinEntries(fileSystem)
            new == BinEntries(fileSystem')
            entry == old[ev'.name]
            path == IF Has(entry, "originalPath") THEN entry.originalPath ELSE <<>>
            name == IF Has(entry, "originalName") THEN entry.originalName ELSE ev'.name
            target == Append(path, name)
            inBin == IF path = <<"Recycle Bin">> THEN {name} ELSE {}
        IN  /\ target # <<"Recycle Bin", ev'.name>> =>
                getNodeByPath(fileSystem', target) = WithoutMetadata(entry)
            /\ Get(fileSystem'.children, "Recycle Bin").type = "folder"
            /\ DOMAIN new = (DOMAIN old \cup inBin) \ {ev'.name}
            /\ \A n \in DOMAIN old \ ({ev'.name} \cup inBin) :
                   IsPrefix(<<"Recycle Bin", n>>, target) \/ new[n] = old[n]
            /\ \A q \in PathsOf(fileSystem) :
                   (~IsPrefix(target, q) /\ ~IsPrefix(<<"Recycle Bin">>, q)) =>
                       SameNode(getNodeByPath(fileSystem', q), getNodeByPath(fileSystem, q),
                                IF q = path THEN {name} ELSE {})]_vars

\* C15: for every tree and every existing item, moveToRecycleBin(path, name)
\* followed by restoreFromRecycleBin on the entry it created gives back a
\* tree equal to the tree before the deletion.
C15_MoveRestoreRoundTrip ==
    initialized =>
        \A path \in FsPaths, name \in FsNames :
            LET moved == moveToRecycleBin(fileSystem, path, name, now, now) IN
            moved.result = "true" =>
                LET restored == restoreFromRecycleBin(moved.root, RecycledName(name, now))
                IN  /\ restored.result = "true"
                    /\ restored.root = fileSystem

\* C16: when the root has a child named Recycle Bin, emptyRecycleBin returns
\* true and leaves an empty Recycle Bin folder there, changing nothing outside
\* it; when the root has no such child it returns false and the tree still
\* has no Recycle Bin.
C16_EmptyClearsBin ==
    [][ev'.op = "emptyRecycleBin" =>
        IF "Recycle Bin" \in DOMAIN fileSystem.children
        THEN /\ ev'.result = "true"
             /\ DOMAIN fileSystem'.children = DOMAIN fileSystem.children
             /\ fileSystem'.children["Recycle Bin"] = [type |-> "folder", children |-> <<>>]
             /\ \A n \in DOMAIN fileSystem.children \ {"Recycle Bin"} :
                    fileSystem'.children[n] = fileSystem.children[n]
             /\ SameNode(fileSystem', fileSystem, {})
        ELSE /\ ev'.result = "false"
             /\ fileSystem' = fileSystem
             /\ "Recycle Bin" \notin DOMAIN fileSystem'.children]_vars

\* the bin emptied after a desktop item went into it
C16_Witness ==
    /\ ev.op = "emptyRecycleBin"
    /\ ev.result = "true"
    /\ BinEntries(fileSystem) = <<>>
    /\ Get(fileSystem.children, "Recycle Bin").type = "folder"
    /\ getNodeByPath(fileSystem, <<"C:", "Desktop">>).type = "folder"
    /\ "About.lnk" \notin DOMAIN getNodeByPath(fileSystem, <<"C:", "Desktop">>).children

\* path segments: names of the tree and a name of no node
Segments == {"C:", "Desktop", "About.lnk", "Recycle Bin", "no such name"}

\* the paths of at most three segments
ProbePaths ==
    {<<>>} \cup {<<a>> : a \in Segments} \cup {<<a, b>> : a, b \in Segments}
           \cup {<<a, b, c>> : a, b, c \in Segments}

\* one step of the descent: the child seg of node, absent when node is absent
\* or no folder or has no such child
Child(node, seg) ==
    IF node.type # "folder" THEN Null
    ELSE IF seg \notin DOMAIN node.children THEN Null
    ELSE node.children[seg]

\* C17: resolvePath([]) is the root; for a non-empty path it is the node
\* reached by descending one child per segment, and absent as soon as the
\* node reached is no folder or has no child named by the next segment.
C17_ResolveDescends ==
    /\ getNodeByPath(fileSystem, <<>>) = fileSystem
    /\ \A p \in ProbePaths \ {<<>>} :
        LET n == Len(p)
            parent == getNodeByPath(fileSystem, SubSeq(p, 1, n - 1))
        IN  /\ getNodeByPath(fileSystem, p) = Child(parent, p[n])
            /\ parent = Null => getNodeByPath(fileSystem, p) = Null

\* a file made on the desktop resolves, and nothing resolves below it
C17_Witness ==
    /\ ev.op = "createFile"
    /\ ev.result = "true"
    /\ getNodeByPath(fileSystem, <<"C:", "Desktop", "C:">>).type = "file"
    /\ getNodeByPath(fileSystem, <<"C:", "Desktop", "C:", "Desktop">>) = Null
    /\ getNodeByPath(fileSystem, <<"Recycle Bin">>) = Null

\* C18: createFile, updateFile, moveToRecycleBin, restoreFromRecycleBin and
\* emptyRecycleBin are total: on every tree reachable through them each call
\* returns true or false and raises no error.
C18_OperationsTotal ==
    ev.op \in FsOps => ev.result \in {"true", "false"}

\* C19: right after a file-system operation that returns true the slot holds
\* the serialization of the whole tree as it is after the operation, and an
\* operation that returns false writes nothing to the slot.
C19_TrueIsPersisted ==
    [][/\ (ev'.op \in FsOps /\ ev'.result = "true") => storage' = JSONstringify(fileSystem')
       /\ (ev'.op \in FsOps /\ ev'.result = "false") => storage' = storage]_vars

\* a slot that holds a folder node with a children mapping
HoldsFolder(slot) ==
    /\ slot # NoItem
    /\ slot[1] = "json"
    /\ slot[2].type = "folder"
    /\ Has(slot[2], "children")

\* C20: a session starts from the persisted tree when the slot holds a folder
\* node with a children mapping, and from the built-in default tree when the
\* slot is absent, unparsable or holds any other parsable value.
C20_SessionStart ==
    [][(~initialized /\ initialized') =>
          fileSystem' = IF HoldsFolder(storage) THEN storage[2] ELSE DEFAULT_FS_ROOT]_vars

----------------------------------------------------------------------------
(* Claims about the desktop icons, the file browser and the drag. *)

\* the windows after a click that opened the window kind of icon key
Opened(ws, after, key) ==
    /\ Len(after) = Len(ws) + 1
    /\ SubSeq(after, 1, Len(ws)) = ws
    /\ after[Len(after)].type = DesktopIcons[key][1]

\* C21: a click on a desktop icon opens the icon's window kind exactly when
\* the previous click on the same icon happened at most 300 ms earlier; any
\* other click only selects the icon and opens no window.
C21_DoubleClickAtMost300 ==
    [][ev'.op = "iconClick" =>
          IF ev'.last # 0 /\ now - ev'.last <= 300
          THEN Opened(windows, windows', ev'.key)
          ELSE windows' = windows /\ desk'.selectedIcon = ev'.key]_vars

\* C21 as amended: the click opens the icon's window kind exactly when the
\* previous click on the same icon happened less than 300 ms earlier; any
\* other click only selects the icon and opens no window.
C21_DoubleClickBelow300 ==
    [][ev'.op = "iconClick" =>
          IF ev'.last # 0 /\ now - ev'.last < 300
          THEN Opened(windows, windows', ev'.key)
          ELSE windows' = windows /\ desk'.selectedIcon = ev'.key]_vars

\* a second click 299 ms after the first has opened the icon's window
C21_Witness ==
    /\ ev.op = "iconClick"
    /\ ev.result = "open"
    /\ now - ev.last = 299
    /\ windows[Len(windows)].type = DesktopIcons[ev.key][1]

Dragging(d) == d.dragState.isDragging

\* C22: the drag state leaves idle only on a movement event more than 5
\* pixels away, on at least one axis, from the pointer-down position on a
\* draggable item; a press and release without such a movement never enters
\* the dragging state; and in every reachable state a drag item is present
\* exactly when the state is dragging.
C22_DragStartsBeyondThreshold ==
    /\ [](Dragging(desk) <=> desk.dragState.item # Null)
    /\ [][(~Dragging(desk) /\ Dragging(desk')) =>
             /\ ev'.op = "pointerMove"
             /\ desk.press.pressed
             /\ \/ ev'.point.x - desk.press.start.x > 5
                \/ desk.press.start.x - ev'.point.x > 5
                \/ ev'.point.y - desk.press.start.y > 5
                \/ desk.press.start.y - ev'.point.y > 5
             /\ desk'.dragState.item.name = desk.press.item.name]_vars
    /\ [][(ev'.op = "pointerUp" /\ ~Dragging(desk)) =>
             ~Dragging(desk') /\ ~desk'.press.pressed]_vars

\* a movement of 6 pixels on one axis has started the drag of the pressed entry
C22_Witness ==
    /\ ev.op = "pointerMove"
    /\ ev.point = [x |-> 206, y |-> 200]
    /\ Dragging(desk)
    /\ desk.dragState.item.name = "About.lnk"
    /\ desk.dragState.position = ev.point

\* C23: every pointer release while dragging returns the drag state to idle
\* with no drag item; when the release point lies in the Recycle Bin icon,
\* moveToRecycleBin is called exactly once, with the dragged item's
\* originating folder path and name; when it lies elsewhere the file system
\* is not changed by the drag.
C23_ReleaseEndsDrag ==
    [][(ev'.op = "pointerUp" /\ Dragging(desk)) =>
          /\ ~Dragging(desk')
          /\ desk'.dragState.item = Null
          /\ IF /\ ev'.point.x \in BinRect.left..BinRect.right
                /\ ev'.point.y \in BinRect.top..BinRect.bottom
             THEN /\ Len(ev'.calls) = 1
                  /\ ev'.calls[1].path = desk.dragState.item.originalLocation
                  /\ ev'.calls[1].name = desk.dragState.item.name
                  /\ fsCalls' = fsCalls + 1
             ELSE /\ ev'.calls = <<>>
                  /\ fileSystem' = fileSystem
                  /\ storage' = storage]_vars

\* an entry dragged out of C:/Desktop was released on the corner of the
\* Recycle Bin icon and is in the bin
C23_Witness ==
    /\ ev.op = "pointerUp"
    /\ ev.point = [x |-> 104, y |-> 480]
    /\ Len(ev.calls) = 1
    /\ ev.calls[1].path = <<"C:", "Desktop">>
    /\ ev.calls[1].result = "true"
    /\ ~Dragging(desk)
    /\ RecycledName(ev.calls[1].name, now) \in DOMAIN fileSystem.children["Recycle Bin"].children

\* the window kind that a double click on a file entry of that name opens,
\* "none" when it opens no window
KindFor(name) ==
    CASE EndsWith(name, ".txt") -> "notepad"
      [] EndsWith(name, ".jpg") \/ EndsWith(name, ".jpeg") \/ EndsWith(name, ".png") -> "image-viewer"
      [] EndsWith(name, ".pdf") -> "pdf-viewer"
      [] name \in {"My Computer.lnk", "Documents.lnk"} -> "file-explorer"
      [] name = "Notepad.lnk" -> "notepad"
      [] name = "Recycle Bin.lnk" -> "recycle-bin"
      [] name = "About.lnk" -> "about"
      [] OTHER -> "none"

\* C24: a double click on an entry of the file browser acts on the child of
\* the browser's current folder with that name: a folder entry appends its
\* name to the current path; a file entry opens exactly one window chosen by
\* the extension of its name (.txt: the text editor with the file's content
\* and name, .jpg/.jpeg/.png: the image viewer, .pdf: the document viewer,
\* .lnk: the fixed action of the shortcut) and no window for any other
\* extension; the file system is unchanged in every case.
C24_OpenItemDispatches ==
    [][ev'.op = "openItem" =>
          LET child == Child(getNodeByPath(fileSystem, ev'.path), ev'.name)
              last == windows'[Len(windows')]
          IN
          /\ fileSystem' = fileSystem
          /\ storage' = storage
          /\ child.type = "folder" =>
                /\ desk'.path = Append(ev'.path, ev'.name)
                /\ windows' = windows
          /\ (child.type = "file" /\ KindFor(ev'.name) = "none") =>
                /\ windows' = windows
                /\ desk'.path = desk.path
          /\ (child.type = "file" /\ KindFor(ev'.name) # "none") =>
                /\ Len(windows') = Len(windows) + 1
                /\ SubSeq(windows', 1, Len(windows)) = windows
                /\ last.type = KindFor(ev'.name)
                /\ desk'.path = desk.path
                /\ EndsWith(ev'.name, ".txt") =>
                      /\ desk'.editor.currentFile = ev'.name
                      /\ desk'.editor.content =
                            (IF Has(child, "content") THEN child.content ELSE "")]_vars

\* C30: in every session, also one started from a persisted tree, Save As
\* asks for the overwrite confirmation exactly when a child with the chosen
\* file name, other than the file currently open, exists in the C:/Desktop
\* folder of the session's current file system, the tree that createFile
\* then writes to.
C30_SaveAsAsksOnCurrentTree ==
    [][(ev'.op = "saveAs" /\ ev'.name # "") =>
          LET desktop == Child(Child(fileSystem, "C:"), "Desktop") IN
          ev'.asked <=> /\ desktop.type = "folder"
                        /\ ev'.name \in DOMAIN desktop.children
                        /\ ev'.name # ev'.currentFile]_vars


----------------------------------------------------------------------------
(* Claims about the document workflow. *)

\* the invocations that got past the call
Started == {i \in 1..MaxJobs : Inv(i).pc # "idle"}

\* the positions in the history of an invocation where cmd ran
Runs(r, cmds) == {k \in 1..Len(r.ran) : r.ran[k].cmd \in cmds}

\* the commands of a history with their outcomes, from position a to b
Steps(r, a, b) == [k \in 1..(b - a + 1) |-> <<r.ran[k + a - 1].cmd, r.ran[k + a - 1].ok>>]

Compilers == {compileCandidates[k] : k \in 1..Len(compileCandidates)}

\* C25: once main.py succeeded, pdflatex, xelatex and lualatex are tried in
\* that order and none is tried after one succeeded; the invocation then
\* returns ok = true and texAvailable = true, with pdfAvailable true exactly
\* when one of the compilers succeeded.
C25_CompilersInOrder ==
    \A i \in Started :
        LET r == Inv(i)
            mains == Runs(r, {"main"})
        IN  \A m \in mains : r.ran[m].ok =>
                LET tried == Len(r.ran) - m
                    succeeded == \E k \in 1..tried : r.ran[m + k].ok
                IN  /\ tried <= Len(compileCandidates)
                    /\ \A k \in 1..tried : r.ran[m + k].cmd = compileCandidates[k]
                    /\ \A k \in 1..(tried - 1) : ~r.ran[m + k].ok
                    /\ r.pc = "done" =>
                         /\ succeeded \/ tried = Len(compileCandidates)
                         /\ r.result = [ok |-> TRUE, pdfAvailable |-> succeeded,
                                        texAvailable |-> TRUE]
                    /\ r.pc # "done" => ~succeeded /\ r.pc = compileCandidates[tried + 1]

C25_Witness ==
    /\ Inv(1).pc = "done"
    /\ Inv(1).result = Processed(TRUE)
    /\ Len(Inv(1).ran) >= 2
    /\ Steps(Inv(1), Len(Inv(1).ran) - 1, Len(Inv(1).ran))
         = << <<"pdflatex", FALSE>>, <<"xelatex", TRUE>> >>

\* the histories with which an invocation may reach main.py
BeforeMain ==
    LET head == << <<"write", TRUE>>, <<"python3", TRUE>>, <<"pip", TRUE>> >>
    IN  {head \o venv \o << <<"install", b>>, <<"import", TRUE>> >> :
            venv \in { << <<"ls", TRUE>> >>, << <<"ls", FALSE>>, <<"venv", TRUE>> >> },
            b \in BOOLEAN}

\* C26: an invocation always ends with a result; a blank job text ends it
\* with ok = false before any file is written or command run; main.py runs
\* only after the job text was written and python3, pip, the virtual
\* environment, the API key and the import test were verified in that order;
\* a failed installation of the dependencies does not stop the invocation;
\* ok = true only when main.py succeeded.
C26_WorkflowOrder ==
    \A i \in Started :
        LET r == Inv(i)
            n == Len(r.ran)
        IN  /\ r.pc \in {"mkdir", "write", "python3", "pip", "ls", "venv", "install",
                         "import", "main", "done"} \cup Compilers
            /\ r.pc # "done" => r.result = NoResult
            /\ r.pc = "done" => r.result \in {Failed, Processed(TRUE), Processed(FALSE)}
            /\ IsBlank(r.text) => r.pc = "done" /\ r.result = Failed /\ n = 0
            /\ \A m \in Runs(r, {"main"}) : Steps(r, 1, m - 1) \in BeforeMain /\ r.apiKey
            /\ \A k \in 1..n :
                   ~r.ran[k].ok /\ r.ran[k].cmd \notin ({"ls", "install"} \cup Compilers)
                       => k = n /\ r.pc = "done" /\ r.result = Failed
            /\ n > 0 /\ r.ran[n] = [cmd |-> "install", ok |-> FALSE] /\ r.apiKey
                   => r.pc = "import"
            /\ r.pc = "done" /\ r.result.ok
                   => \E m \in Runs(r, {"main"}) : r.ran[m].ok

C26_Witness ==
    /\ Inv(1).pc = "done"
    /\ Inv(1).result.ok
    /\ \E m \in Runs(Inv(1), {"main"}) :
           Steps(Inv(1), 1, m - 1) =
               << <<"write", TRUE>>, <<"python3", TRUE>>, <<"pip", TRUE>>, <<"ls", FALSE>>,
                  <<"venv", TRUE>>, <<"install", FALSE>>, <<"import", TRUE>> >>

\* C27: main.py is given the submitted level e clamped to 0..10 when the
\* form value is an integer e, so every level from 0 to 10 unchanged, and 5
\* when the value is missing or not a number.
C27_LevelClamped ==
    \A i \in Started :
        LET r == Inv(i)
        IN  \A m \in Runs(r, {"main"}) :
                r.ran[m].level = IF r.submitted.kind = "int"
                                 THEN Max(0, Min(10, r.submitted.n))
                                 ELSE 5

\* C28: of invocations that overlap, each main.py reads the job text of its
\* own invocation, and an invocation that returns ok = true leaves an
\* Output_CV.tex made from its own job text.
C28_OwnJobText ==
    /\ [](\A i \in Started : Inv(i).read # "none" => Inv(i).read = Inv(i).text)
    /\ [][ev'.op = "job" /\ ev'.step \in Compilers /\ jobs'.running[ev'.id].pc = "done"
              => jobs'.Output_CV = jobs'.running[ev'.id].text]_vars


----------------------------------------------------------------------------
(* Claims about the typing game. *)

\* the entries of a stored history beyond the initial one of every letter
Appended(store, wordSet, letter) ==
    IF Len(store[wordSet]) = MaxLetters THEN Len(store[wordSet][letter]) - 1 ELSE 0

\* C29: every completion of a prompt appends exactly one entry to the stored
\* WPM history, in the slot of the letter typed and under the current word
\* set, and nothing else appends an entry: not a Replay that switches to
\* another letter, not a change of the word set while the finished prompt is
\* shown, not deleting and retyping the last character.
C29_OneEntryPerCompletion ==
    \A wordSet \in WordSets, letter \in Letters :
        Appended(game.localStorage, wordSet, letter) = game.completions[wordSet][letter]
====
